---- MODULE Spec2Model ----
(***************************************************************************)
(* Wallet approval scanner: the scan pipeline of apps/scans (orchestrator, *)
(* cache, background task, retention cleanup) together with the pure       *)
(* stages it sequences (validator, normalizer, risk rules, aggregator).    *)
(*                                                                         *)
(* Strings that the code inspects character by character (addresses) are   *)
(* sequences of one-character strings.  Storage tables are functions whose *)
(* DOMAIN is the set of primary keys present.  Each run of                 *)
(* ScanOrchestrator.execute is a process that takes one step per storage,  *)
(* cache or external call, so that concurrent runs interleave exactly at   *)
(* the points where the code touches shared state.                         *)
(***************************************************************************)
EXTENDS Integers, Sequences, FiniteSets, TLC

(***************************************************************************)
(* Bounds of the model                                                     *)
(***************************************************************************)
\* Scan rows the model lets storage allocate (ids 1..MaxScans).
MaxScans == 2
\* Tasks the model lets the broker hold at once.
MaxQueue == 1

\* The concurrent callers of run_scan (web workers / celery workers).
Procs == {"p1", "p2"}

(***************************************************************************)
(* Program constants                                                       *)
(***************************************************************************)
\* validator.py: ADDRESS_PATTERN, 40 hex characters after "0x".
HexLen == 40
\* tasks.py: @shared_task(max_retries=3)
MaxRetries == 3
\* tasks.py: countdown = 60 * 2 ** retries
RetryBase == 60
\* cache.py: DEFAULT_TIMEOUT
DEFAULT_TIMEOUT == 3600
\* chains/constants.py: MAX_UINT256.  The model keeps the arithmetic of
\* is_unlimited_approval at a width TLC's integers can hold (16 bits).
UintBits == 16
MAX_UINT256 == 2^UintBits - 1

\* Python's None: as a timestamp or text, as an integer (a primary key, an
\* amount, a timeout), and as an object.
None == "None"
NoId == 0
NoAmount == 0 - 1
NoObject == <<>>

(***************************************************************************)
(* Characters and strings                                                  *)
(***************************************************************************)
Whitespace == {" ", "\t", "\n"}
Digits == {"0", "1", "2", "3", "4", "5", "6", "7", "8", "9"}
HexLower == {"a", "b", "c", "d", "e", "f"}
HexUpper == {"A", "B", "C", "D", "E", "F"}
HexChars == Digits \cup HexLower \cup HexUpper

\* str.lower() on one character (the letters the model's alphabet has).
LowerChar(c) ==
    CASE c = "A" -> "a" [] c = "B" -> "b" [] c = "C" -> "c"
      [] c = "D" -> "d" [] c = "E" -> "e" [] c = "F" -> "f"
      [] c = "G" -> "g" [] c = "X" -> "x"
      [] OTHER -> c

\* str.lower()
Lower(s) == [i \in 1..Len(s) |-> LowerChar(s[i])]

RECURSIVE LStrip(_)
LStrip(s) == IF s # <<>> /\ Head(s) \in Whitespace THEN LStrip(Tail(s)) ELSE s

RECURSIVE RStrip(_)
RStrip(s) ==
    IF s # <<>> /\ s[Len(s)] \in Whitespace
    THEN RStrip(SubSeq(s, 1, Len(s) - 1))
    ELSE s

\* str.strip()
Strip(s) == RStrip(LStrip(s))

\* A string of n copies of c.
Rep(c, n) == [i \in 1..n |-> c]

(***************************************************************************)
(* apps/wallets/services/validator.py                                      *)
(***************************************************************************)
\* chains/constants.py: class ChainId(IntEnum): ETHEREUM = 1
ChainId == {1}

\* chains/constants.py: CHAIN_NAMES
CHAIN_NAMES == [c \in ChainId |-> "Ethereum Mainnet"]

\* ADDRESS_PATTERN = re.compile(r"^0x[a-fA-F0-9]{40}$")
ADDRESS_PATTERN(s) ==
    /\ Len(s) = 2 + HexLen
    /\ s[1] = "0"
    /\ s[2] = "x"
    /\ \A i \in 3..Len(s) : s[i] \in HexChars

\* WalletValidator.validate_address: [ok, value, error, supported]; supported
\* is what the message says of the supported chains (nothing, here).
validate_address(address) ==
    IF address = <<>>
    THEN [ok |-> FALSE, value |-> <<>>, error |-> "Address cannot be empty",
          supported |-> {}]
    ELSE IF ~ADDRESS_PATTERN(Strip(address))
    THEN [ok |-> FALSE, value |-> <<>>,
          error |-> "Invalid Ethereum address format", supported |-> {}]
    ELSE [ok |-> TRUE, value |-> Lower(Strip(address)), error |-> "",
          supported |-> {}]

\* A chain check that accepts every chain id.
validate_chain_any(chain_id) == [ok |-> TRUE, error |-> "", supported |-> {}]

\* WalletValidator.validate_chain: [ok, error, supported]; the message of the
\* error lists "value (name)" for every member of ChainId.
validate_chain(chain_id) ==
    IF chain_id \in ChainId
    THEN [ok |-> TRUE, error |-> "", supported |-> {}]
    ELSE [ok |-> FALSE, error |-> "Unsupported chain ID",
          supported |-> {<<c, CHAIN_NAMES[c]>> : c \in ChainId}]

\* A validation that checks the chain before the address.
validate_scan_input_chain_first(address, chain_id) ==
    LET a == validate_address(address)
        c == validate_chain(chain_id)
    IN  IF ~c.ok THEN [ok |-> FALSE, address |-> <<>>, chain_id |-> chain_id,
                       error |-> c.error, supported |-> c.supported]
        ELSE IF ~a.ok THEN [ok |-> FALSE, address |-> <<>>,
                            chain_id |-> chain_id, error |-> a.error,
                            supported |-> a.supported]
        ELSE [ok |-> TRUE, address |-> a.value, chain_id |-> chain_id,
              error |-> "", supported |-> {}]

\* WalletValidator.validate_scan_input: the address is checked first.
validate_scan_input(address, chain_id) ==
    LET a == validate_address(address)
        c == validate_chain(chain_id)
    IN  IF ~a.ok THEN [ok |-> FALSE, address |-> <<>>, chain_id |-> chain_id,
                       error |-> a.error, supported |-> a.supported]
        ELSE IF ~c.ok THEN [ok |-> FALSE, address |-> <<>>,
                            chain_id |-> chain_id, error |-> c.error,
                            supported |-> c.supported]
        ELSE [ok |-> TRUE, address |-> a.value, chain_id |-> chain_id,
              error |-> "", supported |-> {}]

(***************************************************************************)
(* Addresses of the model                                                  *)
(***************************************************************************)
\* "0x" followed by HexLen copies of one character.
Addr(c) == <<"0", "x">> \o Rep(c, HexLen)

\* "0x" + "0" * 40 (rules.py, UnknownSpenderRule.evaluate)
ZeroAddress == Addr("0")

\* rules.py: UnknownSpenderRule.KNOWN_SPENDERS
UNISWAP_V2_ROUTER ==
  <<
    "0","x","7","a","2","5","0","d","5","6","3","0","b","4",
    "c","f","5","3","9","7","3","9","d","f","2","c","5","d",
    "a","c","b","4","c","6","5","9","f","2","4","8","8","d" >>

UNISWAP_V3_ROUTER ==
  <<
    "0","x","e","5","9","2","4","2","7","a","0","a","e","c",
    "e","9","2","d","e","3","e","d","e","e","1","f","1","8",
    "e","0","1","5","7","c","0","5","8","6","1","5","6","4" >>

ONEINCH ==
  <<
    "0","x","1","1","1","1","1","1","1","2","5","4","f","b",
    "6","c","4","4","b","a","a","a","c","2","c","9","1","e",
    "8","0","f","6","8","9","c","7","e","4","a","0","c","f" >>

ZEROX_EXCHANGE ==
  <<
    "0","x","d","e","f","1","c","0","d","e","d","9","b","e",
    "c","7","f","1","a","1","6","7","0","8","1","9","8","3",
    "3","2","4","0","f","0","2","7","b","2","5","e","f","f" >>

OPENSEA_SEAPORT ==
  <<
    "0","x","0","0","0","0","0","0","0","0","0","0","6","c",
    "3","8","5","2","c","b","e","f","3","e","0","8","e","8",
    "d","f","2","8","9","1","6","9","e","d","e","5","8","1" >>

OPENSEA_LEGACY ==
  <<
    "0","x","7","f","2","6","8","3","5","7","a","8","c","2",
    "5","5","2","6","2","3","3","1","6","e","2","5","6","2",
    "d","9","0","e","6","4","2","b","b","5","3","8","e","5" >>

KNOWN_SPENDERS ==
    {UNISWAP_V2_ROUTER, UNISWAP_V3_ROUTER, ONEINCH, ZEROX_EXCHANGE,
     OPENSEA_SEAPORT, OPENSEA_LEGACY}

\* The blacklisted address of the integration tests' fixture, 0x00..01.
DrainerAddress == <<"0", "x">> \o Rep("0", HexLen - 1) \o <<"1">>
\* A second blacklisted address, and addresses on no list.
ScamAddress == <<"0", "x">> \o Rep("0", HexLen - 1) \o <<"2">>
UnknownSpender == Addr("d")
TokenX == Addr("e")
TokenY == Addr("f")

(***************************************************************************)
(* apps/approvals/enums.py, apps/chains/constants.py                       *)
(***************************************************************************)
\* Levels that begin above 60, 40 and 20.
risk_level_from_score_exclusive(score) ==
    IF score > 60 THEN "CRITICAL"
    ELSE IF score > 40 THEN "HIGH"
    ELSE IF score > 20 THEN "MEDIUM"
    ELSE "LOW"

\* risk_level_from_score
risk_level_from_score(score) ==
    IF score >= 60 THEN "CRITICAL"
    ELSE IF score >= 40 THEN "HIGH"
    ELSE IF score >= 20 THEN "MEDIUM"
    ELSE "LOW"

\* is_unlimited_approval: amount >= int(MAX_UINT256 * 0.9)
is_unlimited_approval(amount) == amount >= (MAX_UINT256 * 9) \div 10

(***************************************************************************)
(* shared/schemas.py, apps/approvals/services/normalizer.py                *)
(***************************************************************************)
NftTypes == {"ERC721", "ERC1155"}

\* NormalizedApproval with its __post_init__
NormalizedApproval(wallet_address, token_address, token_type, spender_address, approved_amount, is_unlimited, is_operator, block_number, transaction_hash) ==
    [wallet_address |-> Lower(wallet_address),
     token_address |-> Lower(token_address),
     token_type |-> token_type,
     spender_address |-> Lower(spender_address),
     approved_amount |-> IF token_type \in NftTypes THEN NoAmount
                         ELSE approved_amount,
     is_unlimited |-> is_unlimited,
     is_operator |-> is_operator,
     block_number |-> block_number,
     transaction_hash |-> transaction_hash]

\* ImprovedApprovalNormalizer.normalize_erc20_approval
normalize_erc20_approval(wallet_address, raw_data) ==
    NormalizedApproval(wallet_address, Lower(raw_data.token_address), "ERC20",
                       Lower(raw_data.spender_address),
                       raw_data.approved_amount,
                       is_unlimited_approval(raw_data.approved_amount), FALSE,
                       raw_data.block_number, raw_data.transaction_hash)

\* An NFT approval normalized as an operator approval whatever is_active says.
normalize_nft_approval_always_operator(wallet_address, raw_data) ==
    NormalizedApproval(wallet_address, Lower(raw_data.token_address), "ERC721",
                       Lower(raw_data.operator_address), NoAmount, FALSE,
                       TRUE, raw_data.block_number, raw_data.transaction_hash)

\* ImprovedApprovalNormalizer.normalize_nft_approval
normalize_nft_approval(wallet_address, raw_data) ==
    NormalizedApproval(wallet_address, Lower(raw_data.token_address), "ERC721",
                       Lower(raw_data.operator_address), NoAmount, FALSE,
                       raw_data.is_active, raw_data.block_number,
                       raw_data.transaction_hash)

\* ImprovedApprovalNormalizer.normalize_all: the ERC20 list, then the NFT list.
normalize_all(wallet_address, raw_approvals) ==
    [i \in 1..Len(raw_approvals.erc20) |->
        normalize_erc20_approval(wallet_address, raw_approvals.erc20[i])]
    \o
    [i \in 1..Len(raw_approvals.nft) |->
        normalize_nft_approval(wallet_address, raw_approvals.nft[i])]

(***************************************************************************)
(* apps/blacklists/models.py, apps/risk_engine/rules.py                    *)
(***************************************************************************)
\* BlacklistCategory: get_category_display()
CategoryDisplay(category) ==
    CASE category = "DRAINER" -> "Token Drainer"
      [] category = "SCAM" -> "Scam Contract"
      [] category = "PHISHING" -> "Phishing"
      [] category = "EXPLOIT" -> "Known Exploit"
      [] OTHER -> "Unknown Malicious"

\* The BlacklistEntry rows of the model: the fixture of the integration tests
\* (severity 50) and a second entry of another category and severity.
BlacklistEntries ==
    (DrainerAddress :> [category |-> "DRAINER", severity |-> 50,
                        name |-> "Test Drainer", is_active |-> TRUE])
    @@ (ScamAddress :> [category |-> "SCAM", severity |-> 70,
                        name |-> "", is_active |-> TRUE])

\* BlacklistedSpenderRule.__init__: the addresses of the active entries.
BlacklistSnapshot(entries) == {a \in DOMAIN entries : entries[a].is_active}

\* The class attributes of BlacklistedSpenderRule, before any match.
BlacklistRuleDefault ==
    [points |-> 50, reason |-> <<"Approval to known malicious contract">>]

\* UnlimitedERC20ApprovalRule.evaluate
UnlimitedERC20ApprovalRule(approval) ==
    approval.token_type = "ERC20" /\ approval.is_unlimited

\* NFTOperatorApprovalRule.evaluate
NFTOperatorApprovalRule(approval) ==
    approval.token_type \in NftTypes /\ approval.is_operator

\* BlacklistedSpenderRule.evaluate: [applies, rule], rule being the instance's
\* points and reason after the call.
BlacklistedSpenderRule(approval, rule, snapshot, entries) ==
    LET spender == Lower(approval.spender_address)
    IN  IF spender \in snapshot
        THEN [applies |-> TRUE,
              rule |-> IF spender \in DOMAIN entries
                       THEN [points |-> entries[spender].severity,
                             reason |-> <<"Approval to known",
                                 CategoryDisplay(entries[spender].category),
                                 IF entries[spender].name # ""
                                 THEN entries[spender].name
                                 ELSE "malicious contract">>]
                       ELSE rule]
        ELSE [applies |-> FALSE, rule |-> rule]

\* UnknownSpenderRule.evaluate
UnknownSpenderRule(approval) ==
    LET spender == Lower(approval.spender_address)
    IN  /\ spender \notin KNOWN_SPENDERS
        /\ spender # ZeroAddress

(***************************************************************************)
(* apps/risk_engine/evaluator.py                                           *)
(***************************************************************************)
\* ACTIVE_RULES, lines 159-165 of rules.py: the registry, in its order.
ACTIVE_RULES ==
    <<"UnlimitedERC20ApprovalRule", "NFTOperatorApprovalRule",
      "BlacklistedSpenderRule", "UnknownSpenderRule">>

\* The names of the registered rules.
RuleNames == {ACTIVE_RULES[i] : i \in DOMAIN ACTIVE_RULES}

\* An evaluation that runs no rule.
evaluate_approval_no_rules(approval, rule, snapshot, entries, raises) ==
    [evaluation |-> [approval |-> approval, risk_points |-> 0,
                     risk_reasons |-> <<>>, risk_level |-> "LOW"],
     rule |-> rule]

\* RiskEvaluator.evaluate_approval over ACTIVE_RULES, in registry order:
\* [evaluation, rule]. raises: the rules whose evaluate raises for this
\* approval; the loop catches the exception and goes on to the next rule.
evaluate_approval(approval, rule, snapshot, entries, raises) ==
    LET bl == IF "BlacklistedSpenderRule" \in raises
              THEN [applies |-> FALSE, rule |-> rule]
              ELSE BlacklistedSpenderRule(approval, rule, snapshot, entries)
        r1 == IF /\ "UnlimitedERC20ApprovalRule" \notin raises
                 /\ UnlimitedERC20ApprovalRule(approval)
              THEN [points |-> 25, reasons |-> << <<"Unlimited ERC20 approval">> >>]
              ELSE [points |-> 0, reasons |-> <<>>]
        r2 == IF /\ "NFTOperatorApprovalRule" \notin raises
                 /\ NFTOperatorApprovalRule(approval)
              THEN [points |-> 30, reasons |-> << <<"NFT operator approval">> >>]
              ELSE [points |-> 0, reasons |-> <<>>]
        r3 == IF bl.applies
              THEN [points |-> bl.rule.points, reasons |-> <<bl.rule.reason>>]
              ELSE [points |-> 0, reasons |-> <<>>]
        r4 == IF /\ "UnknownSpenderRule" \notin raises
                 /\ UnknownSpenderRule(approval)
              THEN [points |-> 10, reasons |-> << <<"Approval to unverified contract">> >>]
              ELSE [points |-> 0, reasons |-> <<>>]
        total_points == r1.points + r2.points + r3.points + r4.points
    IN  [evaluation |->
            [approval |-> approval,
             risk_points |-> total_points,
             risk_reasons |-> r1.reasons \o r2.reasons \o r3.reasons \o r4.reasons,
             risk_level |-> risk_level_from_score(total_points)],
         rule |-> bl.rule]

\* RiskEvaluator.evaluate_all: [evaluations, rule], for approvals on which
\* no rule raises.
RECURSIVE evaluate_all(_, _, _, _)
evaluate_all(approvals, rule, snapshot, entries) ==
    IF approvals = <<>>
    THEN [evaluations |-> <<>>, rule |-> rule]
    ELSE LET first == evaluate_approval(Head(approvals), rule, snapshot,
                                        entries, {})
             rest == evaluate_all(Tail(approvals), first.rule, snapshot, entries)
         IN  [evaluations |-> <<first.evaluation>> \o rest.evaluations,
              rule |-> rest.rule]

(***************************************************************************)
(* apps/risk_engine/aggregator.py                                          *)
(***************************************************************************)
RECURSIVE SumPoints(_)
SumPoints(evaluations) ==
    IF evaluations = <<>> THEN 0
    ELSE Head(evaluations).risk_points + SumPoints(Tail(evaluations))

CountLevel(evaluations, level) ==
    Cardinality({i \in 1..Len(evaluations) : evaluations[i].risk_level = level})

\* int(a / b) for b > 0: the quotient truncated towards zero.
IntDiv(a, b) == IF a >= 0 THEN a \div b ELSE -((-a) \div b)

\* A summary whose level is that of the mean alone.
aggregate_level_of_mean(wallet_address, evaluations) ==
    [wallet_address |-> wallet_address,
     total_approvals |-> Len(evaluations),
     total_risk_score |-> SumPoints(evaluations),
     risk_level |-> IF evaluations = <<>> THEN "LOW"
                    ELSE risk_level_from_score(
                             IntDiv(SumPoints(evaluations), Len(evaluations))),
     high_risk_count |-> CountLevel(evaluations, "HIGH"),
     critical_risk_count |-> CountLevel(evaluations, "CRITICAL"),
     evaluations |-> evaluations]

\* A summary whose high_risk_count also counts the CRITICAL evaluations.
aggregate_high_or_above(wallet_address, evaluations) ==
    LET high_or_above ==
            CountLevel(evaluations, "HIGH") + CountLevel(evaluations, "CRITICAL")
        critical_risk_count == CountLevel(evaluations, "CRITICAL")
    IN  [wallet_address |-> wallet_address,
         total_approvals |-> Len(evaluations),
         total_risk_score |-> SumPoints(evaluations),
         risk_level |-> IF evaluations = <<>> THEN "LOW"
                        ELSE IF critical_risk_count >= 3 THEN "CRITICAL"
                        ELSE IF critical_risk_count >= 1 \/ high_or_above >= 5
                        THEN "HIGH"
                        ELSE IF high_or_above >= 2 THEN "MEDIUM"
                        ELSE risk_level_from_score(
                                 IntDiv(SumPoints(evaluations), Len(evaluations))),
         high_risk_count |-> high_or_above,
         critical_risk_count |-> critical_risk_count,
         evaluations |-> evaluations]

\* RiskAggregator.aggregate
aggregate(wallet_address, evaluations) ==
    IF evaluations = <<>>
    THEN [wallet_address |-> wallet_address, total_approvals |-> 0,
          total_risk_score |-> 0, risk_level |-> "LOW", high_risk_count |-> 0,
          critical_risk_count |-> 0, evaluations |-> <<>>]
    ELSE LET total_risk_score == SumPoints(evaluations)
             high_risk_count == CountLevel(evaluations, "HIGH")
             critical_risk_count == CountLevel(evaluations, "CRITICAL")
             avg_risk == IntDiv(total_risk_score, Len(evaluations))
             wallet_risk_level ==
                 IF critical_risk_count >= 3 THEN "CRITICAL"
                 ELSE IF critical_risk_count >= 1 \/ high_risk_count >= 5
                 THEN "HIGH"
                 ELSE IF high_risk_count >= 2 THEN "MEDIUM"
                 ELSE risk_level_from_score(avg_risk)
         IN  [wallet_address |-> wallet_address,
              total_approvals |-> Len(evaluations),
              total_risk_score |-> total_risk_score,
              risk_level |-> wallet_risk_level,
              high_risk_count |-> high_risk_count,
              critical_risk_count |-> critical_risk_count,
              evaluations |-> evaluations]

(***************************************************************************)
(* Inputs of the model                                                     *)
(***************************************************************************)
\* A valid address in mixed case, "0xAbAb...": wallet A once lower-cased.
WalletMixed == <<"0", "x">> \o [i \in 1..HexLen |-> IF i % 2 = 1 THEN "A" ELSE "b"]
WalletA == Lower(WalletMixed)
\* The same address with surrounding whitespace.
WalletPadded == <<" ">> \o WalletMixed \o <<"\n">>
\* A second wallet.
WalletB == Addr("c")

\* What callers pass as wallet_address: valid ones, and ones the validator
\* rejects (too short, a non-hex digit, "0X", empty).
RawAddresses ==
    {WalletMixed, WalletPadded, WalletB,
     <<"0", "x">> \o Rep("a", HexLen - 1),
     <<"0", "x">> \o Rep("g", HexLen),
     <<"0", "X">> \o Rep("a", HexLen),
     <<>>}

\* What callers pass as chain_id: Ethereum and an unsupported chain.
RawChains == {1, 137}

\* What get_approvals_improved can return for a wallet: nothing; one unlimited
\* ERC20 allowance to an unlisted spender; a small allowance to a blacklisted
\* spender together with an operator grant to a well-known marketplace.
RawErc20(token, spender, amount) ==
    [token_address |-> token, spender_address |-> spender,
     block_number |-> 100, transaction_hash |-> "0xt1",
     approved_amount |-> amount, is_active |-> TRUE]

RawNft(token, operator) ==
    [token_address |-> token, operator_address |-> operator,
     block_number |-> 200, transaction_hash |-> "0xt2",
     was_approved |-> TRUE, is_active |-> TRUE]

NoApprovals == [erc20 |-> <<>>, nft |-> <<>>]

OneUnlimited == [erc20 |-> <<RawErc20(TokenX, UnknownSpender, MAX_UINT256)>>, nft |-> <<>>]

DrainerAndOperator ==
    [erc20 |-> <<RawErc20(TokenX, DrainerAddress, 1)>>,
     nft |-> <<RawNft(TokenY, OPENSEA_SEAPORT)>>]

DiscoveryOutputs == {NoApprovals, OneUnlimited, DrainerAndOperator}

(***************************************************************************)
(* apps/approvals/services/adapters/indexer.py                             *)
(***************************************************************************)
\* The event signatures (lines 31-38), abbreviated.
APPROVAL_EVENT_TOPIC == "0x8c5be1e5"
APPROVAL_FOR_ALL_TOPIC == "0x17307eab"

\* The zeros that pad an address to a 32-byte topic (line 100).
TopicPad == 24

\* An address as an indexed topic: "0x" + "0" * 24 + address[2:].lower()
PaddedTopic(address) ==
    <<"0", "x">> \o Rep("0", TopicPad) \o SubSeq(Lower(address), 3, Len(address))

\* int(c, 16) of one digit
HexValue(c) ==
    CHOOSE v \in 0..15 :
        <<"0", "1", "2", "3", "4", "5", "6", "7", "8", "9",
          "a", "b", "c", "d", "e", "f">>[v + 1] = LowerChar(c)

\* int(s, 16) of a string of digits
RECURSIVE HexDigitsValue(_)
HexDigitsValue(s) ==
    IF s = <<>> THEN 0
    ELSE 16 * HexDigitsValue(SubSeq(s, 1, Len(s) - 1)) + HexValue(s[Len(s)])

\* int(s, 16): the prefix "0x" is accepted
IntBase16(s) ==
    IF Len(s) >= 2 /\ s[1] = "0" /\ s[2] \in {"x", "X"}
    THEN HexDigitsValue(SubSeq(s, 3, Len(s)))
    ELSE HexDigitsValue(s)

\* s[-n:]
LastChars(s, n) == IF Len(s) <= n THEN s ELSE SubSeq(s, Len(s) - n + 1, Len(s))

\* s.endswith(c)
EndsWith(s, c) == s # <<>> /\ s[Len(s)] = c

\* What requests.get gives for one log query: an exception of requests, or
\* the JSON body with its status, message and result (a list of events, or a
\* string).
Failure(exception) ==
    [exception |-> exception, status |-> "", message |-> "",
     result_type |-> "list", result |-> <<>>]

Body(status, message, result_type, result) ==
    [exception |-> "", status |-> status, message |-> message,
     result_type |-> result_type, result |-> result]

\* _make_request (lines 64-88): the body, or EtherscanError
_make_request(response) ==
    IF response.exception # ""
    THEN [raised |-> TRUE, data |-> response]
    ELSE IF response.status = "0" /\
            response.message \in {"No transactions found", "No records found"}
    THEN [raised |-> FALSE, data |-> Body("1", "OK", "list", <<>>)]
    ELSE IF response.status = "0" /\ response.message = "NOTOK"
    THEN [raised |-> TRUE, data |-> response]
    ELSE [raised |-> FALSE, data |-> response]

\* get_approval_events (lines 90-126): the first page of Approval events
get_approval_events(response) ==
    LET r == _make_request(response)
    IN  IF r.raised THEN <<>>
        ELSE IF r.data.result_type = "str" THEN <<>>
        ELSE r.data.result

\* get_nft_approval_events (lines 219-250)
get_nft_approval_events(response) ==
    LET r == _make_request(response)
    IN  IF r.raised THEN <<>>
        ELSE IF r.data.result_type = "str" THEN <<>>
        ELSE r.data.result

\* One contract read: the value, or an exception of the RPC client.
Read(value) == [raised |-> FALSE, value |-> value]
ReadFails(value) == [raised |-> TRUE, value |-> value]

\* get_current_allowance (lines 128-162): 0 when the read raises
get_current_allowance(chain, token_address, owner, spender) ==
    LET r == chain.allowance[<<token_address, spender>>]
    IN  IF r.raised THEN 0 ELSE r.value

\* check_nft_operator_status (lines 252-284): False when the read raises
check_nft_operator_status(chain, nft_address, owner, operator) ==
    LET r == chain.operator[<<nft_address, operator>>]
    IN  IF r.raised THEN FALSE ELSE r.value

\* The position of key in a dict kept as the sequence of its values, 0 when
\* absent.
KeyIndex(pairs, key, other) ==
    IF \E i \in 1..Len(pairs) : <<pairs[i].token_address, pairs[i][other]>> = key
    THEN CHOOSE i \in 1..Len(pairs) : <<pairs[i].token_address, pairs[i][other]>> = key
    ELSE 0

\* get_erc20_approvals, step 2 (lines 173-192) over the first n events: a
\* pair already in approval_pairs keeps the data it has.
RECURSIVE Erc20Pairs(_, _)
Erc20Pairs(events, n) ==
    IF n = 0 THEN <<>>
    ELSE LET approval_pairs == Erc20Pairs(events, n - 1)
             event == events[n]
             token == Lower(event.address)
             topics == event.topics
         IN  IF Len(topics) < 3 THEN approval_pairs
             ELSE LET spender == <<"0", "x">> \o LastChars(topics[3], HexLen)
                  IN  IF KeyIndex(approval_pairs, <<token, spender>>, "spender_address") # 0
                      THEN approval_pairs
                      ELSE Append(approval_pairs,
                                  [token_address |-> token,
                                   spender_address |-> spender,
                                   block_number |-> IntBase16(event.blockNumber),
                                   transaction_hash |-> event.transactionHash])

\* Discovery from the events alone: every pair of step 2 is output with the
\* allowance read for it, zero included.
get_erc20_approvals_from_events(chain, wallet_address) ==
    LET events == get_approval_events(chain.erc20_log)
        approval_pairs == Erc20Pairs(events, Len(events))
    IN  [i \in 1..Len(approval_pairs) |->
            [approved_amount |-> get_current_allowance(chain, approval_pairs[i].token_address,
                                     wallet_address, approval_pairs[i].spender_address),
             is_active |-> TRUE] @@ approval_pairs[i]]

\* get_erc20_approvals (lines 164-217)
get_erc20_approvals(chain, wallet_address) ==
    LET events == get_approval_events(chain.erc20_log)
        approval_pairs == Erc20Pairs(events, Len(events))
        allowance(data) == get_current_allowance(chain, data.token_address, wallet_address,
                                                 data.spender_address)
        active == SelectSeq(approval_pairs, LAMBDA data : allowance(data) > 0)
    IN  [i \in 1..Len(active) |->
            [approved_amount |-> allowance(active[i]), is_active |-> TRUE] @@ active[i]]

\* get_nft_approvals, lines 294-316 over the first n events: every event of a
\* pair overwrites the data of the pair, which keeps its place in the dict.
RECURSIVE NftPairs(_, _)
NftPairs(events, n) ==
    IF n = 0 THEN <<>>
    ELSE LET approval_pairs == NftPairs(events, n - 1)
             event == events[n]
             nft == Lower(event.address)
             topics == event.topics
         IN  IF Len(topics) < 3 THEN approval_pairs
             ELSE LET operator == <<"0", "x">> \o LastChars(topics[3], HexLen)
                      data == [token_address |-> nft,
                               operator_address |-> operator,
                               block_number |-> IntBase16(event.blockNumber),
                               transaction_hash |-> event.transactionHash,
                               was_approved |-> EndsWith(event.data, "1")]
                      i == KeyIndex(approval_pairs, <<nft, operator>>, "operator_address")
                  IN  IF i # 0 THEN [approval_pairs EXCEPT ![i] = data]
                      ELSE Append(approval_pairs, data)

\* get_nft_approvals (lines 286-339)
get_nft_approvals(chain, wallet_address) ==
    LET events == get_nft_approval_events(chain.nft_log)
        approval_pairs == NftPairs(events, Len(events))
        active == SelectSeq(approval_pairs,
                            LAMBDA data : check_nft_operator_status(chain, data.token_address,
                                              wallet_address, data.operator_address))
    IN  [i \in 1..Len(active) |-> [is_active |-> TRUE] @@ active[i]]

\* A discovery in which the failure of one log query empties both lists.
get_all_approvals_all_or_nothing(chain, wallet_address) ==
    IF _make_request(chain.erc20_log).raised \/ _make_request(chain.nft_log).raised
    THEN [erc20 |-> <<>>, nft |-> <<>>]
    ELSE [erc20 |-> get_erc20_approvals(chain, wallet_address),
          nft |-> get_nft_approvals(chain, wallet_address)]

\* get_all_approvals (lines 341-350), get_approvals_improved (354-357)
get_all_approvals(chain, wallet_address) ==
    [erc20 |-> get_erc20_approvals(chain, wallet_address),
     nft |-> get_nft_approvals(chain, wallet_address)]

\* The log events of the model, as the log service returns them for wallet
\* A (lower-case topics): an Approval event, and an ApprovalForAll event
\* whose data word ends in 1 (approved) or 0 (revoked).
ApprovalEvent(token, spender, blockNumber, transactionHash) ==
    [address |-> token,
     topics |-> <<APPROVAL_EVENT_TOPIC, PaddedTopic(WalletA), PaddedTopic(spender)>>,
     blockNumber |-> blockNumber, transactionHash |-> transactionHash,
     data |-> <<"0", "x">>]

ApprovalForAllEvent(nft, operator, blockNumber, transactionHash, approved) ==
    [address |-> nft,
     topics |-> <<APPROVAL_FOR_ALL_TOPIC, PaddedTopic(WalletA), PaddedTopic(operator)>>,
     blockNumber |-> blockNumber, transactionHash |-> transactionHash,
     data |-> <<"0", "x">> \o Rep("0", 63) \o <<IF approved THEN "1" ELSE "0">>]

\* Two Approval events of the pair (X, unknown spender), the later one with
\* the token address in upper case; one of the pair (X, drainer); an event
\* that lacks the spender topic.
EventE1 == ApprovalEvent(TokenX, UnknownSpender, <<"0", "x", "6", "4">>, "0xt1")
EventE2 == ApprovalEvent(<<"0", "x">> \o Rep("E", HexLen), UnknownSpender, <<"0", "x", "6", "5">>, "0xt2")
EventE3 == ApprovalEvent(TokenX, DrainerAddress, <<"0", "x", "6", "6">>, "0xt3")
EventShort == [EventE3 EXCEPT !.topics = SubSeq(@, 1, 2)]

\* A grant and a later revocation of the pair (Y, Seaport).
EventN1 == ApprovalForAllEvent(TokenY, OPENSEA_SEAPORT, <<"0", "x", "c", "8">>, "0xt4", TRUE)
EventN2 == ApprovalForAllEvent(TokenY, OPENSEA_SEAPORT, <<"0", "x", "c", "9">>, "0xt5", FALSE)

\* Responses that fail the query: transport error, timeout, and the error
\* payloads of the log service (NOTOK; another message with a string result).
FailedResponses ==
    {Failure("ConnectionError"), Failure("Timeout"),
     Body("0", "NOTOK", "str", <<>>), Body("0", "Query Timeout occured", "str", <<>>)}

Erc20Responses ==
    FailedResponses \cup
    {Body("0", "No records found", "list", <<>>)} \cup
    {Body("1", "OK", "list", events) :
        events \in {<<EventE1>>, <<EventE1, EventE2>>, <<EventE2, EventE1>>,
                    <<EventE1, EventE3>>, <<EventShort, EventE3>>}}

NftResponses ==
    FailedResponses \cup
    {Body("1", "OK", "list", events) :
        events \in {<<>>, <<EventN1>>, <<EventN1, EventN2>>, <<EventN2, EventN1>>}}

\* The pairs the events name.
PairXUnknown == <<TokenX, UnknownSpender>>
PairXDrainer == <<TokenX, DrainerAddress>>
PairYSeaport == <<TokenY, Lower(OPENSEA_SEAPORT)>>

\* The log service and the contracts as one call of the adapter finds them.
Chain(erc20_log, nft_log, allowance_unknown, allowance_drainer, operator) ==
    [erc20_log |-> erc20_log, nft_log |-> nft_log,
     allowance |-> (PairXUnknown :> allowance_unknown) @@ (PairXDrainer :> allowance_drainer),
     operator |-> (PairYSeaport :> operator)]

AllowanceReads == {ReadFails(0), Read(0), Read(5), Read(MAX_UINT256)}
OperatorReads == {ReadFails(FALSE), Read(FALSE), Read(TRUE)}

Chains ==
    {Chain(erc20_log, nft_log, allowance_unknown, allowance_drainer, operator) :
        erc20_log \in Erc20Responses, nft_log \in NftResponses,
        allowance_unknown \in AllowanceReads,
        allowance_drainer \in AllowanceReads \ {Read(MAX_UINT256)},
        operator \in OperatorReads}

\* A wallet without events, all reads answering.
QuietChain == Chain(Body("0", "No records found", "list", <<>>), Body("1", "OK", "list", <<>>), Read(0), Read(0), Read(FALSE))

(***************************************************************************)
(* State                                                                   *)
(***************************************************************************)
VARIABLES
    wallets,        \* Wallet rows: address -> [chain_id, total_scans]
    scans,          \* WalletScan rows: id -> row
    nextScanId,     \* the next primary key of wallet_scans
    approvals,      \* Approval rows, in insertion order
    cache,          \* entries of the cache backend: key -> [scan_id, timeout]
    cacheUp,        \* whether the cache backend answers
    blacklistRule,  \* points and reason of the shared BlacklistedSpenderRule
    queue,          \* task messages the broker holds
    proc,           \* the callers of execute: position and locals
    window,         \* history, per wallet: the reuse window of its cache entry
    chainState,     \* the log service and the contracts, as the adapter finds them
    adapter,        \* a call of get_all_approvals: position and the lists it built
    limiter,        \* the rate limiter of one adapter, or those of a process's adapters
    blacklist,      \* BlacklistEntry rows: address -> row
    blacklistCache, \* _blacklist_cache of the shared BlacklistedSpenderRule
    history,        \* history: the evaluations made since the rules were loaded
    call            \* a call of one function of the pipeline: arguments and result

vars == <<wallets, scans, nextScanId, approvals, cache, cacheUp, blacklistRule, queue, proc, window, chainState, adapter, limiter, blacklist, blacklistCache, history, call>>

storage == <<wallets, scans, nextScanId, approvals>>

\* What lies outside the scanner: the chain, and the adapter that reads it.
external == <<chainState, adapter, limiter, blacklist, blacklistCache, history, call>>

\* What the adapter and the scanner leave alone: the rate limiter of another
\* adapter, the blacklist and the rules loaded from it, single calls.
apart == <<limiter, blacklist, blacklistCache, history, call>>

\* f without the keys in S.
Without(f, S) == [k \in DOMAIN f \ S |-> f[k]]

(***************************************************************************)
(* apps/scans/cache.py: every operation catches the backend's exception.   *)
(* An operation yields [value, cache, raised].                             *)
(***************************************************************************)
ScanCacheMethods == {"get_recent_scan", "set_recent_scan", "invalidate_scan", "clear_all"}

\* ScanCache._get_cache_key
get_cache_key(wallet_address, chain_id) == <<"wallet_scan", chain_id, Lower(wallet_address)>>

\* A lookup that lets the backend's exception through.
get_recent_scan_unguarded(c, up, wallet_address, chain_id) ==
    LET key == get_cache_key(wallet_address, chain_id)
    IN  IF ~up THEN [value |-> NoId, cache |-> c, raised |-> TRUE]
        ELSE IF key \in DOMAIN c /\ c[key].scan_id # 0
        THEN [value |-> c[key].scan_id, cache |-> c, raised |-> FALSE]
        ELSE [value |-> NoId, cache |-> c, raised |-> FALSE]

\* A lookup that never finds an entry.
get_recent_scan_always_miss(c, up, wallet_address, chain_id) ==
    [value |-> NoId, cache |-> c, raised |-> FALSE]

\* ScanCache.get_recent_scan
get_recent_scan(c, up, wallet_address, chain_id) ==
    LET key == get_cache_key(wallet_address, chain_id)
    IN  IF ~up THEN [value |-> NoId, cache |-> c, raised |-> FALSE]
        ELSE IF key \in DOMAIN c /\ c[key].scan_id # 0
        THEN [value |-> c[key].scan_id, cache |-> c, raised |-> FALSE]
        ELSE [value |-> NoId, cache |-> c, raised |-> FALSE]

\* A write that stores nothing.
set_recent_scan_dropped(c, up, wallet_address, scan_id, chain_id, timeout) ==
    [value |-> NoId, cache |-> c, raised |-> FALSE]

\* ScanCache.set_recent_scan
set_recent_scan(c, up, wallet_address, scan_id, chain_id, timeout) ==
    LET key == get_cache_key(wallet_address, chain_id)
        entry == [scan_id |-> scan_id,
                  timeout |-> IF timeout = 0 THEN DEFAULT_TIMEOUT ELSE timeout]
    IN  IF ~up THEN [value |-> NoId, cache |-> c, raised |-> FALSE]
        ELSE [value |-> NoId, cache |-> Without(c, {key}) @@ (key :> entry),
              raised |-> FALSE]

\* ScanCache.invalidate_scan
invalidate_scan(c, up, wallet_address, chain_id) ==
    LET key == get_cache_key(wallet_address, chain_id)
    IN  IF ~up THEN [value |-> NoId, cache |-> c, raised |-> FALSE]
        ELSE [value |-> NoId, cache |-> Without(c, {key}), raised |-> FALSE]

(***************************************************************************)
(* apps/scans/models.py                                                    *)
(***************************************************************************)
ScanStatus == {"PENDING", "IN_PROGRESS", "COMPLETED", "FAILED"}

\* WalletScan.objects.create(wallet=..., status=...): the field defaults.
NewScan(wallet, status) ==
    [wallet |-> wallet, status |-> status, total_approvals |-> 0,
     total_risk_score |-> 0, risk_level |-> "LOW", high_risk_count |-> 0,
     critical_risk_count |-> 0, completed_at |-> None, error_message |-> ""]

\* The columns of a model instance that carries its primary key.
Row(obj) == [f \in DOMAIN obj \ {"id"} |-> obj[f]]

\* Wallet.objects.get_or_create(address=..., chain_id=..., defaults=...)
get_or_create(table, address, chain_id) ==
    IF address \in DOMAIN table THEN table
    ELSE table @@ (address :> [chain_id |-> chain_id, total_scans |-> 0])

(***************************************************************************)
(* Processes                                                               *)
(***************************************************************************)
\* Well-formed arguments as the specification words them: after trimming,
\* "0x" and forty hexadecimal digits; the chain is Ethereum mainnet.
WellFormedAddress(s) ==
    \E i \in 1..(Len(s) + 1) :
        /\ i + HexLen + 1 <= Len(s)
        /\ s[i] = "0" /\ s[i + 1] = "x"
        /\ \A k \in (i + 2)..(i + HexLen + 1) : s[k] \in HexChars
        /\ \A k \in 1..Len(s) : (k < i \/ k > i + HexLen + 1) => s[k] \in Whitespace

WellFormed(wallet_address, chain_id) == WellFormedAddress(wallet_address) /\ chain_id = 1

NoTask == [wallet_address |-> <<>>, chain_id |-> 0, retries |-> 0 - 1, countdown |-> 0]
NoScan == [id |-> NoId]
NoResult == [kind |-> "pending"]

\* The locals of execute (pc .. summary), what it hands to its caller
\* (result), and the history of the run: the exception that ended it (exc),
\* the cache, storage and discovery calls it made (calls), the highest scan
\* id at the call (ids_before), whether the arguments were well-formed
\* (well_formed), the number of normalized approvals (found, -1 before stage
\* 3), and whether another run on the same wallet was executing meanwhile
\* (overlap).
Idle ==
    [pc |-> "idle", task |-> NoTask, address |-> <<>>, chain_id |-> 0,
     force_refresh |-> FALSE, cached_scan_id |-> NoId, wallet |-> NoObject,
     scan |-> NoScan, normalized |-> <<>>, summary |-> NoObject,
     result |-> NoResult, exc |-> "", calls |-> {}, ids_before |-> 0,
     well_formed |-> TRUE, found |-> 0 - 1, overlap |-> FALSE]

\* The scan rows some run of execute holds.
ActiveScans == {proc[p].scan.id : p \in {q \in Procs : proc[q].scan.id # NoId}}

\* The runs of execute in progress on a wallet.
Running(address) ==
    {q \in Procs : proc[q].pc \notin {"idle", "done"} /\ proc[q].address = address}

\* The wallets the model's callers name.
WalletKeys == {WalletA, WalletB}

\* The reuse window of a wallet, from one expiry of its cache entry to the
\* next: the scan that a run returned and the entry names (reuse), and the
\* number of fresh scans that non-forced runs overlapping no other run
\* completed and cached (completed).
NoWindow == [reuse |-> NoId, completed |-> 0]

\* The window of a wallet closes.
CloseWindow(w, addresses) == [a \in DOMAIN w |-> IF a \in addresses THEN NoWindow ELSE w[a]]

\* No adapter whose limiter is followed.
NoLimiter ==
    [pc |-> "none", ceiling |-> 0, rate_limit_delay |-> 0,
     last_request_time |-> 0, now |-> 0, sleep |-> 0, wake |-> 0,
     in_flight |-> 0, requests |-> <<>>]

\* No evaluator constructed, nothing evaluated since the rules were loaded.
\* active: the active addresses in storage when the evaluator was constructed;
\* first: the first approval evaluated with the loaded rules, and its result.
NoHistory == [evaluator |-> FALSE, active |-> {}, first |-> <<>>]

\* No call followed.
NoCall == [fn |-> "none"]

\* No call of the adapter in progress.
AdapterIdle == [pc |-> "idle", erc20 |-> <<>>, nft |-> <<>>]

\* Empty storage, an empty cache and broker, idle callers.
ScannerInit ==
    /\ wallets = <<>>
    /\ scans = <<>>
    /\ nextScanId = 1
    /\ approvals = <<>>
    /\ cache = <<>>
    /\ cacheUp = TRUE
    /\ blacklistRule = BlacklistRuleDefault
    /\ queue = <<>>
    /\ proc = [p \in Procs |-> Idle]
    /\ window = [a \in WalletKeys |-> NoWindow]
    /\ adapter = AdapterIdle

\* No adapter's limiter is followed, the rules are loaded from the blacklist
\* as it stands, no single call is followed.
ApartInit ==
    /\ limiter = NoLimiter
    /\ blacklist = BlacklistEntries
    /\ blacklistCache = BlacklistSnapshot(BlacklistEntries)
    /\ history = NoHistory
    /\ call = NoCall

Init == ScannerInit /\ chainState = QuietChain /\ ApartInit

\* The adapter called on any chain of the model.
InitAdapter == ScannerInit /\ chainState \in Chains /\ ApartInit

(***************************************************************************)
(* apps/scans/orchestrator.py: ScanOrchestrator.execute                    *)
(***************************************************************************)
\* model.save() of an instance with a primary key: the row takes every field.
Save(table, obj) == Without(table, {obj.id}) @@ (obj.id :> Row(obj))

\* The run of p ends: what execute hands to its caller, and the locals the
\* caller can no longer reach dropped.
Finish(p, scan, result, exc) ==
    [proc[p] EXCEPT !.pc = "done", !.result = result, !.exc = exc,
                    !.scan = [id |-> scan.id],
                    !.cached_scan_id = NoId, !.wallet = NoObject,
                    !.normalized = <<>>, !.summary = NoObject]

\* A handler that returns None without storing the FAILED status.
ExceptionHandlerSkipsSave(p, scan, text, handler_ok) ==
    [proc |-> Finish(p, scan, [kind |-> "None"], text), scans |-> scans]

\* The handler without line 146, as the ValidationError branch (lines
\* 136-138) writes a failure: FAILED and the message, no completion time.
ExceptionHandlerNoTimestamp(p, scan, text, handler_ok) ==
    IF scan.id = NoId
    THEN [proc |-> Finish(p, NoScan, [kind |-> "None"], text), scans |-> scans]
    ELSE IF handler_ok
    THEN LET failed == [scan EXCEPT !.status = "FAILED", !.error_message = text]
         IN  [proc |-> Finish(p, failed, [kind |-> "None"], text),
              scans |-> Save(scans, failed)]
    ELSE [proc |-> Finish(p, scan, [kind |-> "Exception", error |-> "handler"], text),
          scans |-> scans]

\* A handler that hands the FAILED scan to the caller instead of None.
ExceptionHandlerReturnsScan(p, scan, text, handler_ok) ==
    IF scan.id = NoId
    THEN [proc |-> Finish(p, NoScan, [kind |-> "None"], text), scans |-> scans]
    ELSE IF handler_ok
    THEN LET failed == [scan EXCEPT !.status = "FAILED",
                                    !.error_message = text,
                                    !.completed_at = "set"]
         IN  [proc |-> Finish(p, failed, [kind |-> "scan", id |-> scan.id], text),
              scans |-> Save(scans, failed)]
    ELSE [proc |-> Finish(p, scan, [kind |-> "Exception", error |-> "handler"], text),
          scans |-> scans]

\* except Exception (lines 141-148), entered with the in-memory scan `scan`
\* (None before the row is created) and the text of the exception; the write
\* of the FAILED status succeeds or raises in its turn.
ExceptionHandler(p, scan, text, handler_ok) ==
    IF scan.id = NoId
    THEN [proc |-> Finish(p, NoScan, [kind |-> "None"], text), scans |-> scans]
    ELSE IF handler_ok
    THEN LET failed == [scan EXCEPT !.status = "FAILED",
                                    !.error_message = text,
                                    !.completed_at = "set"]
         IN  [proc |-> Finish(p, failed, [kind |-> "None"], text),
              scans |-> Save(scans, failed)]
    ELSE [proc |-> Finish(p, scan, [kind |-> "Exception", error |-> "handler"], text),
          scans |-> scans]

\* A call that consults the cache whatever force_refresh says.
StartRunIgnoresForce(p, wallet_address, chain_id, force_refresh, task) ==
    LET v == validate_scan_input(wallet_address, chain_id)
        run == [Idle EXCEPT !.task = task,
                            !.well_formed = WellFormed(wallet_address, chain_id)]
    IN  IF ~v.ok
        THEN [run EXCEPT !.pc = "done",
                         !.result = [kind |-> "ValidationError", error |-> v.error]]
        ELSE [run EXCEPT !.pc = "cache_get",
                         !.address = v.address,
                         !.chain_id = v.chain_id,
                         !.force_refresh = force_refresh,
                         !.ids_before = nextScanId - 1,
                         !.overlap = Running(v.address) # {}]

\* Lines 53-61 and 133-139: the call, with stage 1.  A validation error is
\* re-raised (no scan exists yet); otherwise the run goes to the cache check,
\* or past it under force_refresh.
StartRun(p, wallet_address, chain_id, force_refresh, task) ==
    LET v == validate_scan_input(wallet_address, chain_id)
        run == [Idle EXCEPT !.task = task,
                            !.well_formed = WellFormed(wallet_address, chain_id)]
    IN  IF ~v.ok
        THEN [run EXCEPT !.pc = "done",
                         !.result = [kind |-> "ValidationError", error |-> v.error]]
        ELSE [run EXCEPT !.pc = IF force_refresh THEN "get_wallet" ELSE "cache_get",
                         !.address = v.address,
                         !.chain_id = v.chain_id,
                         !.force_refresh = force_refresh,
                         !.ids_before = nextScanId - 1,
                         !.overlap = Running(v.address) # {}]

\* The callers after p has entered execute: the runs on the same wallet
\* overlap the new one.
Enter(p, run) ==
    [q \in Procs |->
        IF q = p THEN run
        ELSE IF run.pc # "done" /\ q \in Running(run.address)
        THEN [proc[q] EXCEPT !.overlap = TRUE]
        ELSE proc[q]]

\* A synchronous caller (a view, a test) calls execute.
Begin(p, wallet_address, chain_id, force_refresh) ==
    /\ proc[p].pc = "idle"
    /\ proc' = Enter(p, StartRun(p, wallet_address, chain_id, force_refresh, NoTask))
    /\ UNCHANGED <<external, storage, cache, cacheUp, blacklistRule, queue, window>>

\* Line 62: ScanCache.get_recent_scan
CacheGet(p) ==
    /\ proc[p].pc = "cache_get"
    /\ LET r == get_recent_scan(cache, cacheUp, proc[p].address, proc[p].chain_id)
           me == [proc[p] EXCEPT !.calls = @ \cup {"cache.get"} \cup
                                            (IF cacheUp THEN {} ELSE {"cache.get failed"})]
       IN  IF r.raised
           THEN /\ proc' = [proc EXCEPT ![p] =
                       [Finish(p, NoScan, [kind |-> "None"], "cache") EXCEPT !.calls = me.calls]]
                /\ cache' = cache
           ELSE /\ proc' = [proc EXCEPT ![p] =
                       [me EXCEPT !.pc = IF r.value # NoId THEN "db_get" ELSE "get_wallet",
                                  !.cached_scan_id = r.value]]
                /\ cache' = r.cache
    /\ UNCHANGED <<external, storage, cacheUp, blacklistRule, queue, window>>

\* Lines 64-70: WalletScan.objects.get(id=cached_scan_id); on DoesNotExist the
\* code calls ScanCache.invalidate_wallet, a method ScanCache does not have,
\* so the AttributeError reaches except Exception with scan = None.
DbGet(p) ==
    /\ proc[p].pc = "db_get"
    /\ LET id == proc[p].cached_scan_id
           me == [proc[p] EXCEPT !.calls = @ \cup {"storage.read"}]
       IN  IF id \in DOMAIN scans
           THEN /\ proc' = [proc EXCEPT ![p] =
                       [Finish(p, NoScan, [kind |-> "scan", id |-> id], "")
                            EXCEPT !.calls = me.calls]]
                /\ cache' = cache
                /\ window' = window
           ELSE IF "invalidate_wallet" \in ScanCacheMethods
           THEN LET r == invalidate_scan(cache, cacheUp, proc[p].address, proc[p].chain_id)
                IN  /\ proc' = [proc EXCEPT ![p] =
                           [me EXCEPT !.pc = "get_wallet",
                                      !.calls = @ \cup {"cache.delete"}]]
                    /\ cache' = r.cache
                    /\ window' = CloseWindow(window, {proc[p].address})
           ELSE /\ proc' = [proc EXCEPT ![p] =
                       [Finish(p, NoScan, [kind |-> "None"], "AttributeError")
                            EXCEPT !.calls = me.calls]]
                /\ cache' = cache
                /\ window' = window
    /\ UNCHANGED <<external, storage, cacheUp, blacklistRule, queue>>

\* Lines 73-77: Wallet.objects.get_or_create
GetOrCreateWallet(p) ==
    /\ proc[p].pc = "get_wallet"
    /\ LET a == proc[p].address
           table == get_or_create(wallets, a, proc[p].chain_id)
       IN  /\ table[a].chain_id = proc[p].chain_id
           /\ wallets' = table
           /\ proc' = [proc EXCEPT ![p] =
                  [@ EXCEPT !.pc = "create_scan",
                            !.wallet = [address |-> a, chain_id |-> table[a].chain_id,
                                        total_scans |-> table[a].total_scans],
                            !.calls = @ \cup {"storage.write"}]]
    /\ UNCHANGED <<external, scans, nextScanId, approvals, cache, cacheUp, blacklistRule, queue, window>>

\* get_or_create raises (storage unavailable, integrity error).
GetOrCreateWalletRaises(p) ==
    /\ proc[p].pc = "get_wallet"
    /\ LET h == ExceptionHandler(p, NoScan, "get_or_create", TRUE)
       IN  /\ proc' = [proc EXCEPT ![p] = h.proc]
           /\ scans' = h.scans
    /\ UNCHANGED <<external, wallets, nextScanId, approvals, cache, cacheUp, blacklistRule, queue, window>>

\* Lines 80-82: WalletScan.objects.create(wallet=wallet, status=IN_PROGRESS)
CreateScan(p) ==
    /\ proc[p].pc = "create_scan"
    /\ nextScanId <= MaxScans
    /\ LET scan == [id |-> nextScanId] @@ NewScan(proc[p].address, "IN_PROGRESS")
       IN  /\ scans' = Save(scans, scan)
           /\ proc' = [proc EXCEPT ![p] = [@ EXCEPT !.pc = "discover", !.scan = scan]]
    /\ nextScanId' = nextScanId + 1
    /\ UNCHANGED <<external, wallets, approvals, cache, cacheUp, blacklistRule, queue, window>>

\* The insert raises: no row, scan stays None.
CreateScanRaises(p) ==
    /\ proc[p].pc = "create_scan"
    /\ LET h == ExceptionHandler(p, NoScan, "create", TRUE)
       IN  /\ proc' = [proc EXCEPT ![p] = h.proc]
           /\ scans' = h.scans
    /\ UNCHANGED <<external, wallets, nextScanId, approvals, cache, cacheUp, blacklistRule, queue, window>>

\* Lines 86-92: stage 2 (external calls) and stage 3; lines 94-95 choose the
\* branch.
Discover(p, raw_approvals) ==
    /\ proc[p].pc = "discover"
    /\ LET normalized_approvals == normalize_all(proc[p].address, raw_approvals)
       IN  proc' = [proc EXCEPT ![p] =
               [@ EXCEPT !.pc = IF normalized_approvals = <<>> THEN "save_empty" ELSE "evaluate",
                         !.normalized = normalized_approvals,
                         !.found = Len(normalized_approvals),
                         !.calls = @ \cup {"discovery"}]]
    /\ UNCHANGED <<external, storage, cache, cacheUp, blacklistRule, queue, window>>

\* Discovery raises (adapter construction, a malformed payload).
DiscoverRaises(p, handler_ok) ==
    /\ proc[p].pc = "discover"
    /\ LET h == ExceptionHandler(p, proc[p].scan, "discovery", handler_ok)
       IN  /\ proc' = [proc EXCEPT ![p] = [h.proc EXCEPT !.calls = @ \cup {"discovery"}]]
           /\ scans' = h.scans
    /\ UNCHANGED <<external, wallets, nextScanId, approvals, cache, cacheUp, blacklistRule, queue, window>>

\* Line 86 with the adapter spelled out: get_approvals_improved reads the
\* chain as it is at the call.
DiscoverFromChain(p) ==
    /\ proc[p].pc = "discover"
    /\ Discover(p, get_all_approvals(chainState, proc[p].address))

\* Lines 109-113: stages 4 and 5, over the shared rule registry.
Evaluate(p) ==
    /\ proc[p].pc = "evaluate"
    /\ LET e == evaluate_all(proc[p].normalized, blacklistRule, blacklistCache,
                             blacklist)
       IN  /\ blacklistRule' = e.rule
           /\ proc' = [proc EXCEPT ![p] =
                  [@ EXCEPT !.pc = "persist", !.normalized = <<>>,
                            !.summary = aggregate(proc[p].address, e.evaluations)]]
    /\ UNCHANGED <<external, storage, cache, cacheUp, queue, window>>

\* An empty result that leaves the status as it was.
CompletedEmptyKeepsStatus(scan) == [scan EXCEPT !.completed_at = "set"]

\* Lines 96-98: no approvals; the scan is saved COMPLETED with its defaults.
CompletedEmpty(scan) == [scan EXCEPT !.status = "COMPLETED", !.completed_at = "set"]

SaveEmpty(p) ==
    /\ proc[p].pc = "save_empty"
    /\ LET scan == CompletedEmpty(proc[p].scan)
       IN  /\ scans' = Save(scans, scan)
           /\ proc' = [proc EXCEPT ![p] =
                  [@ EXCEPT !.pc = "cache_set", !.scan = scan, !.normalized = <<>>]]
    /\ UNCHANGED <<external, wallets, nextScanId, approvals, cache, cacheUp, blacklistRule, queue, window>>

SaveEmptyRaises(p, handler_ok) ==
    /\ proc[p].pc = "save_empty"
    /\ LET h == ExceptionHandler(p, CompletedEmpty(proc[p].scan), "save", handler_ok)
       IN  /\ proc' = [proc EXCEPT ![p] = h.proc]
           /\ scans' = h.scans
    /\ UNCHANGED <<external, wallets, nextScanId, approvals, cache, cacheUp, blacklistRule, queue, window>>

\* A persist that writes the summary and leaves the status as it was.
WithSummaryKeepsStatus(scan, summary) ==
    [scan EXCEPT !.total_approvals = summary.total_approvals,
                 !.total_risk_score = summary.total_risk_score,
                 !.risk_level = summary.risk_level,
                 !.high_risk_count = summary.high_risk_count,
                 !.critical_risk_count = summary.critical_risk_count,
                 !.completed_at = "set"]

\* _persist_results, lines 160-166: the summary onto the in-memory scan.
WithSummary(scan, summary) ==
    [scan EXCEPT !.total_approvals = summary.total_approvals,
                 !.total_risk_score = summary.total_risk_score,
                 !.risk_level = summary.risk_level,
                 !.high_risk_count = summary.high_risk_count,
                 !.critical_risk_count = summary.critical_risk_count,
                 !.status = "COMPLETED",
                 !.completed_at = "set"]

\* _persist_results, lines 170-186: one Approval per evaluation.
ApprovalRows(scan, summary) ==
    [i \in 1..Len(summary.evaluations) |->
        LET evaluation == summary.evaluations[i]
        IN  [wallet_scan |-> scan.id,
             token_address |-> evaluation.approval.token_address,
             token_type |-> evaluation.approval.token_type,
             spender_address |-> evaluation.approval.spender_address,
             approved_amount |-> evaluation.approval.approved_amount,
             is_unlimited |-> evaluation.approval.is_unlimited,
             is_operator |-> evaluation.approval.is_operator,
             risk_points |-> evaluation.risk_points,
             risk_level |-> evaluation.risk_level,
             risk_reasons |-> evaluation.risk_reasons,
             block_number |-> evaluation.approval.block_number,
             transaction_hash |-> evaluation.approval.transaction_hash]]

\* Line 117: _persist_results under transaction.atomic: the scan row and the
\* approval rows are committed together.
Persist(p) ==
    /\ proc[p].pc = "persist"
    /\ LET scan == WithSummary(proc[p].scan, proc[p].summary)
       IN  /\ scans' = Save(scans, scan)
           /\ approvals' = approvals \o ApprovalRows(scan, proc[p].summary)
           /\ proc' = [proc EXCEPT ![p] =
                  [@ EXCEPT !.pc = "wallet_save", !.scan = scan, !.summary = NoObject]]
    /\ UNCHANGED <<external, wallets, nextScanId, cache, cacheUp, blacklistRule, queue, window>>

\* _persist_results without the transaction: the scan row saved at line 167
\* stays when the bulk insert of line 188 raises and the handler's write
\* raises too.
PersistRaisesNotAtomic(p, handler_ok) ==
    /\ proc[p].pc = "persist"
    /\ LET scan == WithSummary(proc[p].scan, proc[p].summary)
           h == ExceptionHandler(p, scan, "persist", handler_ok)
       IN  /\ proc' = [proc EXCEPT ![p] = h.proc]
           /\ scans' = IF handler_ok THEN h.scans ELSE Save(scans, scan)
    /\ UNCHANGED <<external, wallets, nextScanId, approvals, cache, cacheUp, blacklistRule, queue, window>>

\* _persist_results raises: the transaction is rolled back, the in-memory
\* scan keeps the fields lines 160-166 assigned.
PersistRaises(p, handler_ok) ==
    /\ proc[p].pc = "persist"
    /\ LET h == ExceptionHandler(p, WithSummary(proc[p].scan, proc[p].summary),
                                 "persist", handler_ok)
       IN  /\ proc' = [proc EXCEPT ![p] = h.proc]
           /\ scans' = h.scans
    /\ UNCHANGED <<external, wallets, nextScanId, approvals, cache, cacheUp, blacklistRule, queue, window>>

\* Lines 120-121: wallet.total_scans += 1; wallet.save(), on the instance
\* that get_or_create returned.
WalletSave(p) ==
    /\ proc[p].pc = "wallet_save"
    /\ LET w == proc[p].wallet
       IN  wallets' = Without(wallets, {w.address}) @@
               (w.address :> [chain_id |-> w.chain_id, total_scans |-> w.total_scans + 1])
    /\ proc' = [proc EXCEPT ![p] = [@ EXCEPT !.pc = "cache_set", !.wallet = NoObject]]
    /\ UNCHANGED <<external, scans, nextScanId, approvals, cache, cacheUp, blacklistRule, queue, window>>

\* wallet.save() raises after _persist_results has committed.
WalletSaveRaises(p, handler_ok) ==
    /\ proc[p].pc = "wallet_save"
    /\ LET h == ExceptionHandler(p, proc[p].scan, "wallet.save", handler_ok)
       IN  /\ proc' = [proc EXCEPT ![p] = h.proc]
           /\ scans' = h.scans
    /\ UNCHANGED <<external, wallets, nextScanId, approvals, cache, cacheUp, blacklistRule, queue, window>>

\* Lines 101-103 and 124-131: ScanCache.set_recent_scan, then return scan.
CacheSet(p) ==
    /\ proc[p].pc = "cache_set"
    /\ LET r == set_recent_scan(cache, cacheUp, proc[p].address, proc[p].scan.id,
                                proc[p].chain_id, 0)
           calls == proc[p].calls \cup {"cache.set"} \cup
                        (IF cacheUp THEN {} ELSE {"cache.set failed"})
           w == window[proc[p].address]
       IN  IF r.raised
           THEN LET h == ExceptionHandler(p, proc[p].scan, "cache", TRUE)
                IN  /\ proc' = [proc EXCEPT ![p] = [h.proc EXCEPT !.calls = calls]]
                    /\ scans' = h.scans
                    /\ cache' = cache
                    /\ window' = window
           ELSE /\ proc' = [proc EXCEPT ![p] =
                       [Finish(p, proc[p].scan,
                               [kind |-> "scan", id |-> proc[p].scan.id], "")
                            EXCEPT !.calls = calls]]
                /\ scans' = scans
                /\ cache' = r.cache
                /\ window' = [window EXCEPT ![proc[p].address] =
                       IF ~cacheUp THEN [w EXCEPT !.reuse = NoId]
                       ELSE [w EXCEPT !.reuse = proc[p].scan.id,
                                      !.completed =
                                          IF proc[p].force_refresh \/ proc[p].overlap
                                          THEN @ ELSE @ + 1]]
    /\ UNCHANGED <<external, wallets, nextScanId, approvals, cacheUp, blacklistRule, queue>>

(***************************************************************************)
(* apps/scans/tasks.py, api/v1/views.py                                    *)
(***************************************************************************)
\* A task message: the arguments of scan_wallet_async and request.retries.
Task(wallet_address, chain_id, retries, countdown) ==
    [wallet_address |-> wallet_address, chain_id |-> chain_id,
     retries |-> retries, countdown |-> countdown]

\* 2 ** n
RECURSIVE Pow2(_)
Pow2(n) == IF n = 0 THEN 1 ELSE 2 * Pow2(n - 1)

\* A retry whose delay does not grow with request.retries.
RetryFixedDelay(task) ==
    IF task.retries < MaxRetries
    THEN <<Task(task.wallet_address, task.chain_id, task.retries + 1, RetryBase)>>
    ELSE <<>>

\* tasks.py line 41: self.retry(exc=e, countdown=60 * (2 ** self.request.retries))
\* re-sends the task, or re-raises once max_retries is reached.
Retry(task) ==
    IF task.retries < MaxRetries
    THEN <<Task(task.wallet_address, task.chain_id, task.retries + 1,
                RetryBase * Pow2(task.retries))>>
    ELSE <<>>

\* execute returns to its caller.  In scan_wallet_async (lines 26-41) a scan
\* or None is the task's result; an exception goes to self.retry.
Return(p) ==
    /\ proc[p].pc = "done"
    /\ LET raised == proc[p].result.kind \in {"ValidationError", "Exception"}
           again == IF proc[p].task.retries >= 0 /\ raised THEN Retry(proc[p].task) ELSE <<>>
       IN  /\ Len(queue) + Len(again) <= MaxQueue
           /\ queue' = queue \o again
    /\ proc' = [proc EXCEPT ![p] = Idle]
    /\ UNCHANGED <<external, storage, cache, cacheUp, blacklistRule, window>>

\* A worker takes a task message and runs scan_wallet_async: execute without
\* force_refresh (line 29).
TaskStart(p, i) ==
    /\ proc[p].pc = "idle"
    /\ i \in 1..Len(queue)
    /\ proc' = Enter(p, StartRun(p, queue[i].wallet_address, queue[i].chain_id, FALSE, queue[i]))
    /\ queue' = SubSeq(queue, 1, i - 1) \o SubSeq(queue, i + 1, Len(queue))
    /\ UNCHANGED <<external, storage, cache, cacheUp, blacklistRule, window>>

\* ScanWalletView.post with async (lines 42-71), after the serializer has
\* validated and normalized the address: wallet, PENDING scan, task.
PostAsync(wallet_address, chain_id) ==
    LET a == validate_address(wallet_address)
    IN  /\ a.ok /\ validate_chain(chain_id).ok
        /\ nextScanId <= MaxScans
        /\ Len(queue) < MaxQueue
        /\ LET table == get_or_create(wallets, Lower(a.value), chain_id)
           IN  /\ wallets' = table
               /\ scans' = Save(scans, [id |-> nextScanId] @@ NewScan(Lower(a.value), "PENDING"))
        /\ nextScanId' = nextScanId + 1
        /\ queue' = Append(queue, Task(a.value, chain_id, 0, 0))
        /\ UNCHANGED <<external, approvals, cache, cacheUp, blacklistRule, proc, window>>

\* scan_wallet_async.delay(wallet_address, chain_id) by a caller that has not
\* validated the arguments (the task validates them itself, in execute): the
\* message of a first execution.
Delay(wallet_address, chain_id) ==
    /\ Len(queue) < MaxQueue
    /\ queue' = Append(queue, Task(wallet_address, chain_id, 0, 0))
    /\ UNCHANGED <<external, storage, cache, cacheUp, blacklistRule, proc, window>>

(***************************************************************************)
(* A call of ImprovedEtherscanAdapter.get_all_approvals on its own         *)
(***************************************************************************)
\* The chain moves on between two calls: other events in the logs, other
\* allowances, a log service that fails or answers.
ChainChanges(chain) ==
    /\ adapter.pc = "idle"
    /\ \A p \in Procs : proc[p].pc = "idle"
    /\ chain # chainState
    /\ chainState' = chain
    /\ UNCHANGED <<storage, cache, cacheUp, blacklistRule, queue, proc, window, adapter, apart>>

\* get_approvals_improved(wallet A), lines 354-357
AdapterCall ==
    /\ adapter.pc = "idle"
    /\ adapter' = [adapter EXCEPT !.pc = "erc20"]
    /\ UNCHANGED <<storage, cache, cacheUp, blacklistRule, queue, proc, window, chainState, apart>>

\* Line 347
GetErc20Approvals ==
    /\ adapter.pc = "erc20"
    /\ adapter' = [adapter EXCEPT !.pc = "nft",
                                  !.erc20 = get_erc20_approvals(chainState, WalletA)]
    /\ UNCHANGED <<storage, cache, cacheUp, blacklistRule, queue, proc, window, chainState, apart>>

\* Lines 348-350
GetNftApprovals ==
    /\ adapter.pc = "nft"
    /\ adapter' = [adapter EXCEPT !.pc = "done",
                                  !.nft = get_nft_approvals(chainState, WalletA)]
    /\ UNCHANGED <<storage, cache, cacheUp, blacklistRule, queue, proc, window, chainState, apart>>

\* The caller has taken the two lists.
AdapterReturn ==
    /\ adapter.pc = "done"
    /\ adapter' = AdapterIdle
    /\ UNCHANGED <<storage, cache, cacheUp, blacklistRule, queue, proc, window, chainState, apart>>

(***************************************************************************)
(* The rate limiter of one ImprovedEtherscanAdapter                        *)
(***************************************************************************)
\* The clock of time.time() counts tenths of a second.
Second == 10

\* settings.ETHERSCAN_RATE_LIMIT, requests per second (5 when not set)
Ceilings == {1, 2, 5}

\* The clock stops here.
MaxTime == 26

\* time.time() when the adapter is constructed: far from the initial stamp 0.
Epoch == 2 * Second

\* _rate_limit with no sleep.
_rate_limit_no_sleep(now, last_request_time, rate_limit_delay) == 0

\* _rate_limit, lines 59-61: the time it sleeps.
_rate_limit(now, last_request_time, rate_limit_delay) ==
    LET elapsed == now - last_request_time
    IN  IF elapsed < rate_limit_delay THEN rate_limit_delay - elapsed ELSE 0

\* __init__, lines 45-46
NewAdapter(ceiling) ==
    /\ limiter.pc = "none"
    /\ limiter' = [NoLimiter EXCEPT !.pc = "idle", !.ceiling = ceiling,
                                    !.rate_limit_delay = Second \div ceiling,
                                    !.last_request_time = 0, !.now = Epoch]
    /\ UNCHANGED <<storage, cache, cacheUp, blacklistRule, queue, proc, window, chainState, adapter, blacklist, blacklistCache, history, call>>

\* Time passes, whatever the adapter is doing.
Tick ==
    /\ limiter.pc # "none"
    /\ limiter.now < MaxTime
    /\ limiter' = [limiter EXCEPT !.now = @ + 1]
    /\ UNCHANGED <<storage, cache, cacheUp, blacklistRule, queue, proc, window, chainState, adapter, blacklist, blacklistCache, history, call>>

\* _make_request calls _rate_limit (line 66), which goes to sleep (59-61).
RateLimit ==
    /\ limiter.pc = "idle"
    /\ LET sleep == _rate_limit(limiter.now, limiter.last_request_time,
                                limiter.rate_limit_delay)
       IN  limiter' = [limiter EXCEPT !.pc = "sleep", !.sleep = sleep,
                                      !.wake = limiter.now + sleep]
    /\ UNCHANGED <<storage, cache, cacheUp, blacklistRule, queue, proc, window, chainState, adapter, blacklist, blacklistCache, history, call>>

\* The sleep is over: the stamp of line 62, and requests.get of line 73.
\* requests: the start times of the last request and of the one before it.
SendRequest ==
    /\ limiter.pc = "sleep"
    /\ limiter.now >= limiter.wake
    /\ limiter' = [limiter EXCEPT !.pc = "request",
                      !.last_request_time = limiter.now,
                      !.in_flight = @ + 1,
                      !.requests = IF @ = <<>> THEN <<limiter.now>>
                                   ELSE <<@[Len(@)], limiter.now>>]
    /\ UNCHANGED <<storage, cache, cacheUp, blacklistRule, queue, proc, window, chainState, adapter, blacklist, blacklistCache, history, call>>

\* requests.get returns or raises (lines 73-88): the adapter goes on.
Response ==
    /\ limiter.pc = "request"
    /\ limiter' = [limiter EXCEPT !.pc = "idle", !.in_flight = @ - 1]
    /\ UNCHANGED <<storage, cache, cacheUp, blacklistRule, queue, proc, window, chainState, adapter, blacklist, blacklistCache, history, call>>

(***************************************************************************)
(* The adapters of the scans that run in one process                       *)
(***************************************************************************)
\* The limiter fields of the adapter of one scan: none before line 356 has
\* constructed it.  sent: the log requests of this get_all_approvals so far.
NoScanAdapter ==
    [pc |-> "none", rate_limit_delay |-> 0, last_request_time |-> 0, wake |-> 0,
     sent |-> 0]

\* The process: its clock, settings.ETHERSCAN_RATE_LIMIT, the adapter of each
\* running scan, and the start times of the last ceiling + 1 requests that
\* reached the log service, whichever adapter sent them.
ProcessLimiters(ceiling) ==
    [now |-> Epoch, ceiling |-> ceiling, adapters |-> [p \in Procs |-> NoScanAdapter],
     requests |-> <<>>]

InitProcess ==
    /\ ScannerInit
    /\ chainState = QuietChain
    /\ limiter \in {ProcessLimiters(ceiling) : ceiling \in {1, 2}}
    /\ blacklist = BlacklistEntries
    /\ blacklistCache = BlacklistSnapshot(BlacklistEntries)
    /\ history = NoHistory
    /\ call = NoCall

\* get_approvals_improved, line 356: the scan of p constructs its own
\* adapter, whose __init__ (lines 45-46) sets its own last_request_time.
ScanNewAdapter(p) ==
    /\ limiter.adapters[p].pc = "none"
    /\ limiter' = [limiter EXCEPT !.adapters[p] =
                      [NoScanAdapter EXCEPT !.pc = "idle",
                          !.rate_limit_delay = Second \div limiter.ceiling]]
    /\ UNCHANGED <<storage, cache, cacheUp, blacklistRule, queue, proc, window, chainState, adapter, blacklist, blacklistCache, history, call>>

\* Time passes for every thread of the process.
ProcessTick ==
    /\ limiter.now < MaxTime
    /\ limiter' = [limiter EXCEPT !.now = @ + 1]
    /\ UNCHANGED <<storage, cache, cacheUp, blacklistRule, queue, proc, window, chainState, adapter, blacklist, blacklistCache, history, call>>

\* _make_request of the adapter of p calls _rate_limit (line 66): the sleep
\* is computed from the fields of this adapter alone (lines 59-61).
ScanRateLimit(p) ==
    /\ limiter.adapters[p].pc = "idle"
    /\ limiter.adapters[p].sent < 2
    /\ LET a == limiter.adapters[p]
           sleep == _rate_limit(limiter.now, a.last_request_time, a.rate_limit_delay)
       IN  limiter' = [limiter EXCEPT !.adapters[p] =
                          [a EXCEPT !.pc = "sleep", !.wake = limiter.now + sleep]]
    /\ UNCHANGED <<storage, cache, cacheUp, blacklistRule, queue, proc, window, chainState, adapter, blacklist, blacklistCache, history, call>>

\* The sleep of p is over: the stamp of line 62 and requests.get of line 73.
ScanSendRequest(p) ==
    /\ limiter.adapters[p].pc = "sleep"
    /\ limiter.now >= limiter.adapters[p].wake
    /\ limiter' = [limiter EXCEPT
                      !.adapters[p] = [@ EXCEPT !.pc = "request",
                                                !.last_request_time = limiter.now,
                                                !.sent = @ + 1],
                      !.requests = IF Len(@) <= limiter.ceiling
                                   THEN Append(@, limiter.now)
                                   ELSE Append(Tail(@), limiter.now)]
    /\ UNCHANGED <<storage, cache, cacheUp, blacklistRule, queue, proc, window, chainState, adapter, blacklist, blacklistCache, history, call>>

\* requests.get returns or raises (lines 73-88).
ScanResponse(p) ==
    /\ limiter.adapters[p].pc = "request"
    /\ limiter' = [limiter EXCEPT !.adapters[p] = [@ EXCEPT !.pc = "idle"]]
    /\ UNCHANGED <<storage, cache, cacheUp, blacklistRule, queue, proc, window, chainState, adapter, blacklist, blacklistCache, history, call>>

\* get_all_approvals has made its two event queries (lines 343-344): the
\* scan goes on without the adapter, which is dropped.
ScanAdapterDone(p) ==
    /\ limiter.adapters[p].pc = "idle"
    /\ limiter.adapters[p].sent = 2
    /\ limiter' = [limiter EXCEPT !.adapters[p] = NoScanAdapter]
    /\ UNCHANGED <<storage, cache, cacheUp, blacklistRule, queue, proc, window, chainState, adapter, blacklist, blacklistCache, history, call>>

(***************************************************************************)
(* The blacklist, the rule registry and the evaluators of one process      *)
(***************************************************************************)
\* BlacklistEntry.severity, an IntegerField without validators: rows with a
\* negative severity are stored like any other.
Severities == {0 - 40, 50}

\* The rows an administrator can store for an address of the model.
BlacklistRows(address) ==
    IF address = DrainerAddress
    THEN {[category |-> "DRAINER", severity |-> v, name |-> "Test Drainer",
           is_active |-> b] : v \in Severities, b \in BOOLEAN}
    ELSE {[category |-> "SCAM", severity |-> 70, name |-> "", is_active |-> b] :
              b \in BOOLEAN}

BlacklistAddresses == {DrainerAddress, ScamAddress}

\* The approvals the evaluators are given.
ToDrainer ==
    NormalizedApproval(WalletA, TokenX, "ERC20", DrainerAddress, MAX_UINT256,
                       TRUE, FALSE, 100, "0xt1")
ToScam ==
    NormalizedApproval(WalletA, TokenX, "ERC20", ScamAddress, 5, FALSE, FALSE,
                       101, "0xt2")
ToSeaport ==
    NormalizedApproval(WalletA, TokenY, "ERC721", OPENSEA_SEAPORT, NoAmount,
                       FALSE, TRUE, 102, "0xt3")
RuleApprovals == {ToDrainer, ToScam, ToSeaport}

\* The admin site adds or changes a row (ModelAdmin, mark_active,
\* mark_inactive).
AdminSave(address, row) ==
    /\ IF address \in DOMAIN blacklist THEN blacklist[address] # row ELSE TRUE
    /\ blacklist' = Without(blacklist, {address}) @@ (address :> row)
    /\ UNCHANGED <<storage, cache, cacheUp, blacklistRule, queue, proc, window, chainState, adapter, limiter, blacklistCache, history, call>>

\* The admin site deletes a row.
AdminDelete(address) ==
    /\ address \in DOMAIN blacklist
    /\ blacklist' = Without(blacklist, {address})
    /\ UNCHANGED <<storage, cache, cacheUp, blacklistRule, queue, proc, window, chainState, adapter, limiter, blacklistCache, history, call>>

\* A process starts and imports rules.py: ACTIVE_RULES is built (159-165),
\* BlacklistedSpenderRule.__init__ reads the active addresses (85-92).
LoadRules ==
    /\ blacklistCache' = BlacklistSnapshot(blacklist)
    /\ blacklistRule' = BlacklistRuleDefault
    /\ history' = NoHistory
    /\ call' = NoCall
    /\ UNCHANGED <<storage, cache, cacheUp, queue, proc, window, chainState, adapter, limiter, blacklist>>

\* RiskEvaluator.__init__ (evaluator.py 20-22): self.rules = get_active_rules(),
\* the list built at import.
NewEvaluator ==
    /\ history' = [history EXCEPT !.evaluator = TRUE,
                                  !.active = BlacklistSnapshot(blacklist)]
    /\ call' = NoCall
    /\ UNCHANGED <<storage, cache, cacheUp, blacklistRule, queue, proc, window, chainState, adapter, limiter, blacklist, blacklistCache>>

\* The last call of evaluate_approval of the evaluator: n tells a call from
\* the one before it.
EvaluationCall(approval, raises, result, n) ==
    [fn |-> "evaluate_approval", approval |-> approval, raises |-> raises,
     evaluation |-> result.evaluation, n |-> n]

\* RiskEvaluator.evaluate_approval(approval), no rule raising.
EvaluateApproval(approval) ==
    /\ history.evaluator
    /\ LET result == evaluate_approval(approval, blacklistRule, blacklistCache,
                                       blacklist, {})
       IN  /\ blacklistRule' = result.rule
           /\ call' = EvaluationCall(approval, {}, result,
                         IF call.fn = "evaluate_approval" THEN 1 - call.n ELSE 0)
           /\ history' = IF history.first = <<>>
                         THEN [history EXCEPT !.first =
                                  <<[approval |-> approval,
                                     evaluation |-> result.evaluation]>>]
                         ELSE history
    /\ UNCHANGED <<storage, cache, cacheUp, queue, proc, window, chainState, adapter, limiter, blacklist, blacklistCache>>

(***************************************************************************)
(* Threads of one process that evaluate with the shared rule registry      *)
(***************************************************************************)
\* A thread in evaluate_approval: the rule the loop of evaluator.py 38-45 is
\* at (i, an index of ACTIVE_RULES) and its locals.
ThreadIdle ==
    [pc |-> "idle", approval |-> ToSeaport, i |-> 0, total_points |-> 0,
     reasons |-> <<>>, level |-> "LOW"]

\* The threads of the process.
Threads == IF call.fn = "threads" THEN call.threads ELSE [p \in Procs |-> ThreadIdle]

ThreadStep(p, thread) == [fn |-> "threads", threads |-> [Threads EXCEPT ![p] = thread]]

\* The rules without instance state: evaluate, and the class attributes that
\* get_points and get_reason return (rules.py 47-73, 108-135).
StatelessRule(name, approval) ==
    CASE name = "UnlimitedERC20ApprovalRule" ->
             [applies |-> UnlimitedERC20ApprovalRule(approval), points |-> 25,
              reason |-> <<"Unlimited ERC20 approval">>]
      [] name = "NFTOperatorApprovalRule" ->
             [applies |-> NFTOperatorApprovalRule(approval), points |-> 30,
              reason |-> <<"NFT operator approval">>]
      [] name = "UnknownSpenderRule" ->
             [applies |-> UnknownSpenderRule(approval), points |-> 10,
              reason |-> <<"Approval to unverified contract">>]

\* evaluate_approval is called in thread p (evaluator.py 34-35).
ThreadEvaluateApproval(p, approval) ==
    /\ Threads[p].pc = "idle"
    /\ call' = ThreadStep(p, [ThreadIdle EXCEPT !.pc = "rule", !.approval = approval,
                                                !.i = 1])
    /\ UNCHANGED <<storage, cache, cacheUp, blacklistRule, queue, proc, window, chainState, adapter, limiter, blacklist, blacklistCache, history>>

\* One turn of the loop for a rule without instance state (lines 38-42).
ThreadStatelessRule(p) ==
    LET t == Threads[p]
    IN  /\ t.pc = "rule"
        /\ t.i <= Len(ACTIVE_RULES)
        /\ ACTIVE_RULES[t.i] # "BlacklistedSpenderRule"
        /\ LET r == StatelessRule(ACTIVE_RULES[t.i], t.approval)
           IN  call' = ThreadStep(p,
                   IF r.applies
                   THEN [t EXCEPT !.i = @ + 1, !.total_points = @ + r.points,
                                  !.reasons = Append(@, r.reason)]
                   ELSE [t EXCEPT !.i = @ + 1])
        /\ UNCHANGED <<storage, cache, cacheUp, blacklistRule, queue, proc, window, chainState, adapter, limiter, blacklist, blacklistCache, history>>

\* BlacklistedSpenderRule.evaluate, lines 95-99: the spender is looked up in
\* the snapshot and its row is read.
ThreadBlacklistLookup(p) ==
    LET t == Threads[p]
        spender == Lower(t.approval.spender_address)
    IN  /\ t.pc = "rule"
        /\ t.i <= Len(ACTIVE_RULES)
        /\ ACTIVE_RULES[t.i] = "BlacklistedSpenderRule"
        /\ call' = ThreadStep(p,
               IF spender \notin blacklistCache THEN [t EXCEPT !.i = @ + 1]
               ELSE IF spender \in DOMAIN blacklist THEN [t EXCEPT !.pc = "set_reason"]
               ELSE [t EXCEPT !.pc = "get_points"])
        /\ UNCHANGED <<storage, cache, cacheUp, blacklistRule, queue, proc, window, chainState, adapter, limiter, blacklist, blacklistCache, history>>

\* Line 100: self.reason of the one registered instance.
ThreadSetReason(p) ==
    LET t == Threads[p]
        spender == Lower(t.approval.spender_address)
    IN  /\ t.pc = "set_reason"
        /\ blacklistRule' =
               [blacklistRule EXCEPT !.reason =
                   BlacklistedSpenderRule(t.approval, blacklistRule, blacklistCache,
                                          blacklist).rule.reason]
        /\ call' = ThreadStep(p, [t EXCEPT !.pc = "set_points"])
        /\ UNCHANGED <<storage, cache, cacheUp, queue, proc, window, chainState, adapter, limiter, blacklist, blacklistCache, history>>

\* Line 101: self.points; evaluate returns True (line 104).
ThreadSetPoints(p) ==
    LET t == Threads[p]
    IN  /\ t.pc = "set_points"
        /\ blacklistRule' =
               [blacklistRule EXCEPT !.points =
                   BlacklistedSpenderRule(t.approval, blacklistRule, blacklistCache,
                                          blacklist).rule.points]
        /\ call' = ThreadStep(p, [t EXCEPT !.pc = "get_points"])
        /\ UNCHANGED <<storage, cache, cacheUp, queue, proc, window, chainState, adapter, limiter, blacklist, blacklistCache, history>>

\* evaluator.py 41: total_points += rule.get_points()
ThreadGetPoints(p) ==
    LET t == Threads[p]
    IN  /\ t.pc = "get_points"
        /\ call' = ThreadStep(p, [t EXCEPT !.pc = "get_reason",
                                            !.total_points = @ + blacklistRule.points])
        /\ UNCHANGED <<storage, cache, cacheUp, blacklistRule, queue, proc, window, chainState, adapter, limiter, blacklist, blacklistCache, history>>

\* evaluator.py 42: reasons.append(rule.get_reason())
ThreadGetReason(p) ==
    LET t == Threads[p]
    IN  /\ t.pc = "get_reason"
        /\ call' = ThreadStep(p, [t EXCEPT !.pc = "rule", !.i = @ + 1,
                                            !.reasons = Append(@, blacklistRule.reason)])
        /\ UNCHANGED <<storage, cache, cacheUp, blacklistRule, queue, proc, window, chainState, adapter, limiter, blacklist, blacklistCache, history>>

\* Lines 47-55: the level of the sum, and the RiskEvaluation returned.
ThreadReturn(p) ==
    LET t == Threads[p]
    IN  /\ t.pc = "rule"
        /\ t.i > Len(ACTIVE_RULES)
        /\ call' = ThreadStep(p, [t EXCEPT !.pc = "done",
                                            !.level = risk_level_from_score(t.total_points)])
        /\ UNCHANGED <<storage, cache, cacheUp, blacklistRule, queue, proc, window, chainState, adapter, limiter, blacklist, blacklistCache, history>>

\* The caller has taken the evaluation.
ThreadIdles(p) ==
    /\ Threads[p].pc = "done"
    /\ call' = ThreadStep(p, ThreadIdle)
    /\ UNCHANGED <<storage, cache, cacheUp, blacklistRule, queue, proc, window, chainState, adapter, limiter, blacklist, blacklistCache, history>>

(***************************************************************************)
(* Single calls of the evaluator and of risk_level_from_score              *)
(***************************************************************************)
\* The approvals of single calls: every token type, spenders that are
\* blacklisted, unknown, well known, and the zero address.
EvaluatedApprovals ==
    {NormalizedApproval(WalletA, TokenX, token_type, spender, 5, is_unlimited,
                        is_operator, 100, "0xt1") :
        token_type \in {"ERC20", "ERC721", "ERC1155"},
        spender \in {DrainerAddress, ScamAddress, UnknownSpender,
                     UNISWAP_V2_ROUTER, ZeroAddress},
        is_unlimited \in BOOLEAN, is_operator \in BOOLEAN}

\* The scores of single calls of risk_level_from_score.
Scores == (0 - 5) .. 125

\* evaluate_approval(approval), the rules in raises raising: a rule raises on
\* an approval it cannot read or when the query of line 99 of rules.py fails.
CallEvaluateApproval(approval, raises) ==
    /\ call.fn = "none"
    /\ LET result == evaluate_approval(approval, blacklistRule, blacklistCache,
                                       blacklist, raises)
       IN  /\ blacklistRule' = result.rule
           /\ call' = EvaluationCall(approval, raises, result, 0)
    /\ UNCHANGED <<storage, cache, cacheUp, queue, proc, window, chainState, adapter, limiter, blacklist, blacklistCache, history>>

\* The call returns to its caller.
CallReturns ==
    /\ call.fn # "none"
    /\ call' = NoCall
    /\ UNCHANGED <<storage, cache, cacheUp, blacklistRule, queue, proc, window, chainState, adapter, limiter, blacklist, blacklistCache, history>>

\* risk_level_from_score(score)
CallRiskLevel(score) ==
    /\ call.fn = "none"
    /\ call' = [fn |-> "risk_level_from_score", score |-> score,
                level |-> risk_level_from_score(score)]
    /\ UNCHANGED <<storage, cache, cacheUp, blacklistRule, queue, proc, window, chainState, adapter, limiter, blacklist, blacklistCache, history>>

(***************************************************************************)
(* Single calls of RiskAggregator.aggregate                                *)
(***************************************************************************)
\* The longest list of evaluations given to aggregate.
MaxEvaluations == 5

\* The points of the evaluations given to aggregate: one value per level, and
\* a value below zero.
AggregatedPoints == {0 - 5, 5, 25, 45, 65}

\* The RiskEvaluation evaluate_approval returns for an approval with these
\* points: its level is risk_level_from_score(points).
RiskEvaluation(points) ==
    [approval |-> ToSeaport, risk_points |-> points, risk_reasons |-> <<>>,
     risk_level |-> risk_level_from_score(points)]

\* The lists of evaluations given to aggregate, the empty list among them.
EvaluationLists ==
    UNION {[1..n -> {RiskEvaluation(points) : points \in AggregatedPoints}] :
               n \in 0..MaxEvaluations}

\* aggregate_risk(wallet_address, evaluations)
CallAggregate(wallet_address, evaluations) ==
    /\ call.fn = "none"
    /\ call' = [fn |-> "aggregate", wallet_address |-> wallet_address,
                evaluations |-> evaluations,
                summary |-> aggregate(wallet_address, evaluations)]
    /\ UNCHANGED <<storage, cache, cacheUp, blacklistRule, queue, proc, window, chainState, adapter, limiter, blacklist, blacklistCache, history>>

(***************************************************************************)
(* Single calls of validate_scan_input                                     *)
(***************************************************************************)
\* The addresses given to the validator: a prefix, 39 to 41 times a digit, a
\* letter of either case, a letter that is no hex digit or a blank, with and
\* without whitespace around; a mixed-case address; the empty string.
ValidatedAddresses ==
    {lead \o prefix \o Rep(c, n) \o trail :
        lead \in {<<>>, <<" ">>, <<"\t", " ">>},
        prefix \in {<<"0", "x">>, <<"0", "X">>, <<>>},
        c \in {"0", "a", "F", "g", " "},
        n \in (HexLen - 1)..(HexLen + 1),
        trail \in {<<>>, <<"\n">>}}
    \cup {WalletMixed, WalletPadded, <<>>, <<" ">>}

\* The chain ids given to the validator.
ValidatedChains == {0, 1, 137}

\* validate_scan_input(address, chain_id), lines 93-95 of validator.py
CallValidateScanInput(address, chain_id) ==
    /\ call.fn = "none"
    /\ call' = [fn |-> "validate_scan_input", address |-> address,
                chain_id |-> chain_id,
                result |-> validate_scan_input(address, chain_id)]
    /\ UNCHANGED <<storage, cache, cacheUp, blacklistRule, queue, proc, window, chainState, adapter, limiter, blacklist, blacklistCache, history>>

(***************************************************************************)
(* Single calls of normalize_approvals_improved                            *)
(***************************************************************************)
\* The records discovery hands to the normalizer: addresses in upper, lower
\* and mixed case, allowances small and unlimited, operators confirmed or not.
NormalizedErc20 ==
    {RawErc20(token, spender, amount) :
        token \in {TokenX, <<"0", "x">> \o Rep("E", HexLen)},
        spender \in {UnknownSpender, UNISWAP_V2_ROUTER},
        amount \in {5, MAX_UINT256}}

NormalizedNft ==
    {[RawNft(token, operator) EXCEPT !.is_active = is_active] :
        token \in {TokenY, <<"0", "x">> \o Rep("F", HexLen)},
        operator \in {OPENSEA_SEAPORT},
        is_active \in BOOLEAN}

\* Lists of at most two records of a set.
UpToTwo(S) == UNION {[1..n -> S] : n \in 0..2}

\* normalize_approvals_improved(wallet_address, raw_approvals), lines 133-137
CallNormalizeAll(wallet_address, raw_approvals) ==
    /\ call.fn = "none"
    /\ call' = [fn |-> "normalize_all", wallet_address |-> wallet_address,
                raw_approvals |-> raw_approvals,
                normalized |-> normalize_all(wallet_address, raw_approvals)]
    /\ UNCHANGED <<storage, cache, cacheUp, blacklistRule, queue, proc, window, chainState, adapter, limiter, blacklist, blacklistCache, history>>

(***************************************************************************)
(* The log service and its pages                                           *)
(***************************************************************************)
\* The "offset" of the one request of each event query: 1000 results in the
\* source (indexer.py 110 and 235), two at the scale of the model.
PageOffset == 2

\* The log service: page `page` of `offset` results out of the events it
\* holds for the wallet, in the order in which it keeps them.
LogPage(held, page, offset) ==
    LET first == (page - 1) * offset + 1
        last == IF page * offset < Len(held) THEN page * offset ELSE Len(held)
    IN  IF first > last THEN Body("0", "No records found", "list", <<>>)
        ELSE Body("1", "OK", "list", SubSeq(held, first, last))

\* The events the log service may hold for wallet A: up to three of them.
SeqsUpToThree(S) ==
    {<<>>} \cup {<<a>> : a \in S} \cup {<<a, b>> : a, b \in S} \cup
    {<<a, b, c>> : a, b, c \in S}

HeldErc20 == SeqsUpToThree({EventE1, EventE2, EventE3})
HeldNft == SeqsUpToThree({EventN1, EventN2})

\* get_erc20_approvals on a log service that holds `held`: the one request
\* of get_approval_events asks for "page": "1" (lines 102-112).
CallGetErc20Approvals(held, allowance_unknown, allowance_drainer) ==
    /\ call.fn = "none"
    /\ LET chain == Chain(LogPage(held, 1, PageOffset), LogPage(<<>>, 1, PageOffset),
                          allowance_unknown, allowance_drainer, Read(FALSE))
       IN  call' = [fn |-> "get_erc20_approvals", held |-> held, chain |-> chain,
                    approvals |-> get_erc20_approvals(chain, WalletA)]
    /\ UNCHANGED <<wallets, scans, nextScanId, approvals, cache, cacheUp, blacklistRule,
                   queue, proc, window, chainState, adapter, limiter, blacklist,
                   blacklistCache, history>>

\* get_nft_approvals on a log service that holds `held` (lines 227-237).
CallGetNftApprovals(held, operator) ==
    /\ call.fn = "none"
    /\ LET chain == Chain(LogPage(<<>>, 1, PageOffset), LogPage(held, 1, PageOffset),
                          Read(0), Read(0), operator)
       IN  call' = [fn |-> "get_nft_approvals", held |-> held, chain |-> chain,
                    approvals |-> get_nft_approvals(chain, WalletA)]
    /\ UNCHANGED <<wallets, scans, nextScanId, approvals, cache, cacheUp, blacklistRule,
                   queue, proc, window, chainState, adapter, limiter, blacklist,
                   blacklistCache, history>>

(***************************************************************************)
(* Environment                                                             *)
(***************************************************************************)
\* cleanup_old_scans, Command.handle (lines 27-58) without --dry-run: the
\* scans started before the cutoff are deleted (ids grow with started_at),
\* their approvals with them (on_delete=CASCADE).  The scans that a run of
\* execute still holds are taken to be younger than the cutoff.
Cleanup(cutoff) ==
    LET old_scans == {id \in DOMAIN scans : id < cutoff}
    IN  /\ old_scans # {}
        /\ old_scans \cap ActiveScans = {}
        /\ scans' = Without(scans, old_scans)
        /\ approvals' = SelectSeq(approvals, LAMBDA row : row.wallet_scan \notin old_scans)
        /\ window' = CloseWindow(window, {a \in WalletKeys : window[a].reuse \in old_scans})
        /\ UNCHANGED <<external, wallets, nextScanId, cache, cacheUp, blacklistRule, queue, proc>>

\* The backend drops the entry of a wallet, its timeout having passed.
CacheExpire(wallet_address, chain_id) ==
    /\ get_cache_key(wallet_address, chain_id) \in DOMAIN cache
    /\ cache' = Without(cache, {get_cache_key(wallet_address, chain_id)})
    /\ window' = CloseWindow(window, {wallet_address})
    /\ UNCHANGED <<external, storage, cacheUp, blacklistRule, queue, proc>>

\* An operator calls ScanCache.invalidate_scan.
InvalidateScan(wallet_address, chain_id) ==
    /\ cache' = invalidate_scan(cache, cacheUp, wallet_address, chain_id).cache
    /\ cache' # cache
    /\ window' = CloseWindow(window, {wallet_address})
    /\ UNCHANGED <<external, storage, cacheUp, blacklistRule, queue, proc>>

\* The cache backend becomes unreachable, and reachable again.
CacheDown ==
    /\ cacheUp
    /\ cacheUp' = FALSE
    /\ window' = CloseWindow(window, WalletKeys)
    /\ UNCHANGED <<external, storage, cache, blacklistRule, queue, proc>>

CacheBack ==
    /\ ~cacheUp
    /\ cacheUp' = TRUE
    /\ UNCHANGED <<external, storage, cache, blacklistRule, queue, proc, window>>

(***************************************************************************)
(* Specifications                                                          *)
(***************************************************************************)
\* The steps of execute in which nothing raises, and the return.
Pipeline(p, outputs) ==
    \/ CacheGet(p)
    \/ DbGet(p)
    \/ GetOrCreateWallet(p)
    \/ CreateScan(p)
    \/ \E raw \in outputs : Discover(p, raw)
    \/ Evaluate(p)
    \/ SaveEmpty(p)
    \/ Persist(p)
    \/ WalletSave(p)
    \/ CacheSet(p)
    \/ Return(p)

\* The steps in which a storage or external call raises.
Raises(p) ==
    \/ GetOrCreateWalletRaises(p)
    \/ CreateScanRaises(p)
    \/ \E ok \in BOOLEAN : DiscoverRaises(p, ok)
    \/ \E ok \in BOOLEAN : SaveEmptyRaises(p, ok)
    \/ \E ok \in BOOLEAN : PersistRaises(p, ok)
    \/ \E ok \in BOOLEAN : WalletSaveRaises(p, ok)

\* One caller at a time, any arguments, every storage and discovery fault,
\* rows deleted and entries expiring in between.
Next ==
    \/ \E a \in RawAddresses \ {WalletB}, c \in RawChains, f \in BOOLEAN : Begin("p1", a, c, f)
    \/ Pipeline("p1", DiscoveryOutputs)
    \/ Raises("p1")
    \/ \E cutoff \in 2..(MaxScans + 1) : Cleanup(cutoff)
    \/ CacheExpire(WalletA, 1)

Spec == Init /\ [][Next]_vars

\* One caller at a time on one wallet, the cache backend failing and
\* recovering, entries invalidated and expiring.
NextOutage ==
    \/ \E a \in {WalletMixed, WalletPadded}, f \in BOOLEAN : Begin("p1", a, 1, f)
    \/ Pipeline("p1", DiscoveryOutputs)
    \/ DiscoverRaises("p1", TRUE)
    \/ InvalidateScan(WalletA, 1)
    \/ CacheExpire(WalletA, 1)
    \/ CacheDown
    \/ CacheBack

SpecOutage == Init /\ [][NextOutage]_vars

\* Two callers on one wallet without force_refresh, the entry expiring,
\* discovery failing.  The callers are interchangeable: the second enters
\* once the first has.
NextConcurrent ==
    \/ Begin("p1", WalletMixed, 1, FALSE)
    \/ proc["p1"].pc # "idle" /\ Begin("p2", WalletMixed, 1, FALSE)
    \/ \E p \in Procs : Pipeline(p, {NoApprovals, OneUnlimited})
    \/ \E p \in Procs : DiscoverRaises(p, TRUE)
    \/ CacheExpire(WalletA, 1)

SpecConcurrent == Init /\ [][NextConcurrent]_vars

\* The asynchronous path: the view queues tasks, one worker runs them and a
\* synchronous caller asks in between; storage writes succeed, discovery may
\* fail.
NextAsync ==
    \/ \E a \in {WalletMixed, WalletB} : PostAsync(a, 1)
    \/ \E i \in 1..MaxQueue : TaskStart("p1", i)
    \/ \E a \in {WalletMixed, WalletB} : Begin("p1", a, 1, FALSE)
    \/ Pipeline("p1", DiscoveryOutputs)
    \/ DiscoverRaises("p1", TRUE)
    \/ \E a \in WalletKeys : CacheExpire(a, 1)

SpecAsync == Init /\ [][NextAsync]_vars

\* The worker alone: tasks sent with any arguments, discovery failing with
\* the handler's write succeeding or raising.
NextRetry ==
    \/ \E a \in {WalletMixed, <<"0", "x">> \o Rep("g", HexLen)}, c \in RawChains : Delay(a, c)
    \/ \E i \in 1..MaxQueue : TaskStart("p1", i)
    \/ Pipeline("p1", {NoApprovals, OneUnlimited})
    \/ \E handler_ok \in BOOLEAN : DiscoverRaises("p1", handler_ok)
    \/ CacheExpire(WalletA, 1)

SpecRetry == Init /\ [][NextRetry]_vars

\* The adapter alone, called again and again on one chain.
NextAdapter ==
    \/ AdapterCall
    \/ GetErc20Approvals
    \/ GetNftApprovals
    \/ AdapterReturn

SpecAdapter == InitAdapter /\ [][NextAdapter]_vars

\* Chains for whole scans: each sub-query failing in turn while the other
\* finds a confirmed approval, both failing, both answering.
ScanChains ==
    {Chain(erc20_log, nft_log, Read(MAX_UINT256), Read(0), Read(TRUE)) :
        erc20_log \in {Failure("Timeout"), Body("0", "NOTOK", "str", <<>>),
                       Body("1", "OK", "list", <<EventE1>>)},
        nft_log \in {Failure("ConnectionError"), Body("1", "OK", "list", <<EventN1>>)}}

\* Forced scans of wallet A that discover through the adapter.
NextDiscovery ==
    \/ \E chain \in ScanChains : ChainChanges(chain)
    \/ \E f \in BOOLEAN : Begin("p1", WalletMixed, 1, f)
    \/ CacheGet("p1")
    \/ DbGet("p1")
    \/ GetOrCreateWallet("p1")
    \/ CreateScan("p1")
    \/ DiscoverFromChain("p1")
    \/ Evaluate("p1")
    \/ SaveEmpty("p1")
    \/ Persist("p1")
    \/ WalletSave("p1")
    \/ CacheSet("p1")
    \/ Return("p1")

SpecDiscovery == Init /\ [][NextDiscovery]_vars

\* One adapter and the requests it makes to the log service.
NextLimiter ==
    \/ \E ceiling \in Ceilings : NewAdapter(ceiling)
    \/ Tick
    \/ RateLimit
    \/ SendRequest
    \/ Response

SpecLimiter == Init /\ [][NextLimiter]_vars

\* One process: its rules, its evaluators, and the admin site beside them.
NextRules ==
    \/ \E address \in BlacklistAddresses :
           \E row \in BlacklistRows(address) : AdminSave(address, row)
    \/ \E address \in BlacklistAddresses : AdminDelete(address)
    \/ LoadRules
    \/ NewEvaluator
    \/ \E approval \in RuleApprovals : EvaluateApproval(approval)

SpecRules == Init /\ [][NextRules]_vars

\* Single calls, with the blacklist as the rules found it.
NextEvaluate ==
    \/ \E approval \in EvaluatedApprovals :
           \E raises \in SUBSET RuleNames :
               CallEvaluateApproval(approval, raises)
    \/ \E score \in Scores : CallRiskLevel(score)
    \/ CallReturns

SpecEvaluate == Init /\ [][NextEvaluate]_vars

\* Single calls of the aggregator.
NextAggregate ==
    \/ \E evaluations \in EvaluationLists : CallAggregate(WalletA, evaluations)
    \/ CallReturns

SpecAggregate == Init /\ [][NextAggregate]_vars

\* Single calls of the validator.
NextValidate ==
    \/ \E address \in ValidatedAddresses :
           \E chain_id \in ValidatedChains :
               CallValidateScanInput(address, chain_id)
    \/ CallReturns

SpecValidate == Init /\ [][NextValidate]_vars

\* Single calls of the normalizer.
NextNormalize ==
    \/ \E wallet_address \in {WalletMixed, WalletA} :
           \E erc20 \in UpToTwo(NormalizedErc20) :
               \E nft \in UpToTwo(NormalizedNft) :
                   CallNormalizeAll(wallet_address, [erc20 |-> erc20, nft |-> nft])
    \/ CallReturns

SpecNormalize == Init /\ [][NextNormalize]_vars

\* Single discoveries of wallet A over every log of up to three events.
NextPages ==
    \/ \E held \in HeldErc20, allowance_unknown \in AllowanceReads,
          allowance_drainer \in AllowanceReads \ {Read(MAX_UINT256)} :
           CallGetErc20Approvals(held, allowance_unknown, allowance_drainer)
    \/ \E held \in HeldNft, operator \in OperatorReads : CallGetNftApprovals(held, operator)
    \/ CallReturns

SpecPages == Init /\ [][NextPages]_vars

\* The threads of one process, each running scans one after the other, every
\* scan with the adapter it constructs.
NextProcess ==
    \/ \E p \in Procs : ScanNewAdapter(p)
    \/ ProcessTick
    \/ \E p \in Procs : ScanRateLimit(p)
    \/ \E p \in Procs : ScanSendRequest(p)
    \/ \E p \in Procs : ScanResponse(p)
    \/ \E p \in Procs : ScanAdapterDone(p)

SpecProcess == InitProcess /\ [][NextProcess]_vars

\* Two threads of one process, each evaluating approvals one after the
\* other with the rules registered at import; the blacklist does not change.
NextThreads ==
    \/ \E p \in Procs, approval \in RuleApprovals : ThreadEvaluateApproval(p, approval)
    \/ \E p \in Procs : ThreadStatelessRule(p)
    \/ \E p \in Procs : ThreadBlacklistLookup(p)
    \/ \E p \in Procs : ThreadSetReason(p)
    \/ \E p \in Procs : ThreadSetPoints(p)
    \/ \E p \in Procs : ThreadGetPoints(p)
    \/ \E p \in Procs : ThreadGetReason(p)
    \/ \E p \in Procs : ThreadReturn(p)
    \/ \E p \in Procs : ThreadIdles(p)

SpecThreads == Init /\ [][NextThreads]_vars

\* Chains for scans under faults of the log service and of the RPC endpoint:
\* nothing to find and nothing failing, both queries failing, one query
\* refused, the allowance read or the operator read raising for the one
\* candidate, and a confirmed approval beside a read that raises.
FaultChains ==
    {QuietChain,
     Chain(Failure("Timeout"), Failure("Timeout"), Read(MAX_UINT256), Read(0), Read(TRUE)),
     Chain(Body("0", "NOTOK", "str", <<>>), Body("1", "OK", "list", <<>>),
           Read(MAX_UINT256), Read(0), Read(FALSE)),
     Chain(Body("1", "OK", "list", <<EventE1>>), Body("1", "OK", "list", <<>>),
           ReadFails(0), Read(0), Read(FALSE)),
     Chain(Body("0", "No records found", "list", <<>>), Body("1", "OK", "list", <<EventN1>>),
           Read(0), Read(0), ReadFails(FALSE)),
     Chain(Body("1", "OK", "list", <<EventE1>>), Body("1", "OK", "list", <<EventN1>>),
           Read(5), Read(0), ReadFails(FALSE))}

\* Scans of wallet A, forced or not, that discover through the adapter on
\* these chains.
NextFaults ==
    \/ \E chain \in FaultChains : ChainChanges(chain)
    \/ \E f \in BOOLEAN : Begin("p1", WalletMixed, 1, f)
    \/ CacheGet("p1")
    \/ DbGet("p1")
    \/ GetOrCreateWallet("p1")
    \/ CreateScan("p1")
    \/ DiscoverFromChain("p1")
    \/ Evaluate("p1")
    \/ SaveEmpty("p1")
    \/ Persist("p1")
    \/ WalletSave("p1")
    \/ CacheSet("p1")
    \/ Return("p1")

SpecFaults == Init /\ [][NextFaults]_vars

(***************************************************************************)
(* Properties of ScanOrchestrator.execute                                  *)
(***************************************************************************)
\* The key of the cache entry the run of p reads and writes.
KeyOf(p) == get_cache_key(proc[p].address, proc[p].chain_id)

\* The run of p has read a cache entry whose scan row is gone.
StaleHit(p) == proc[p].pc = "db_get" /\ proc[p].cached_scan_id \notin DOMAIN scans

\* C1: a non-forced run that finds a cache entry whose scan row no longer
\* exists treats the entry as a miss: its next step deletes the entry and
\* goes on to the wallet lookup that opens a fresh scan.
C1_StaleEntryIsMiss ==
    [][\A p \in Procs :
          (StaleHit(p) /\ proc'[p].pc # "db_get")
              => /\ proc'[p].pc = "get_wallet"
                 /\ KeyOf(p) \notin DOMAIN cache']_vars

\* A run stands before a stale entry.
C1_StaleEntryRead == \E p \in Procs : StaleHit(p)

\* The status changes a scan row may undergo.
AllowedTransitions ==
    {<<"PENDING", "IN_PROGRESS">>, <<"IN_PROGRESS", "COMPLETED">>, <<"IN_PROGRESS", "FAILED">>}

\* C2: in every step, faults included, the status of a stored scan changes
\* only along PENDING -> IN_PROGRESS, IN_PROGRESS -> COMPLETED or
\* IN_PROGRESS -> FAILED; a COMPLETED or FAILED row keeps its status.
C2_StatusTransitions ==
    [][\A id \in DOMAIN scans \cap DOMAIN scans' :
          scans'[id].status # scans[id].status
              => <<scans[id].status, scans'[id].status>> \in AllowedTransitions]_vars

\* A scan is FAILED because the wallet's counter could not be saved, after
\* its results had been committed.
C2_FailedAfterCommit ==
    \E id \in DOMAIN scans :
        /\ scans[id].status = "FAILED"
        /\ scans[id].error_message = "wallet.save"
        /\ \E i \in 1..Len(approvals) : approvals[i].wallet_scan = id

\* Nothing is queued and nobody is executing.
Quiescent == queue = <<>> /\ \A p \in Procs : proc[p].pc = "idle"

\* C3: PENDING and IN_PROGRESS are transient: once every queued task has run
\* and every caller has returned, storage writes having succeeded, each scan
\* row is COMPLETED or FAILED.
C3_TransientStatuses ==
    Quiescent => \A id \in DOMAIN scans : scans[id].status \in {"COMPLETED", "FAILED"}

\* The task of a queued scan has run to a COMPLETED scan and returned.
C3_TaskHasRun ==
    /\ Quiescent
    /\ \E id \in DOMAIN scans : scans[id].status = "PENDING"
    /\ \E id \in DOMAIN scans : scans[id].status = "COMPLETED"

\* The exceptions of steps 3-6, by the call that raised.
PipelineErrors == {"get_or_create", "create", "discovery", "save", "persist", "wallet.save"}

\* The run of p has ended on an exception of steps 3-6.
EndedOnError(p) == proc[p].pc = "done" /\ proc[p].exc \in PipelineErrors

\* The scan of the run of p is stored FAILED with the text of its exception.
StoredFailed(p) ==
    /\ proc[p].scan.id \in DOMAIN scans
    /\ scans[proc[p].scan.id].status = "FAILED"
    /\ scans[proc[p].scan.id].error_message = proc[p].exc

Reusing(p) ==
    /\ proc[p].pc \in {"cache_get", "db_get"}
    /\ window[proc[p].address].reuse # NoId

\* C5: after a run has returned a completed scan, a following run without
\* force_refresh, the entry alive, the backend up and the row present,
\* returns the scan with the same id, still COMPLETED, and changes no wallet,
\* scan or approval row, having made no call but the cache read and the
\* lookup of the row.
C5_CachedScanReused ==
    [][\A p \in Procs :
          (Reusing(p) /\ proc'[p].pc # proc[p].pc) =>
              LET id == window[proc[p].address].reuse
              IN  /\ UNCHANGED storage
                  /\ IF proc[p].pc = "cache_get"
                     THEN proc'[p].pc = "db_get" /\ proc'[p].cached_scan_id = id
                     ELSE /\ proc'[p].pc = "done"
                          /\ proc'[p].result = [kind |-> "scan", id |-> id]
                          /\ scans[id].status = "COMPLETED"
                          /\ proc'[p].scan.id = NoId
                          /\ proc'[p].calls = {"cache.get", "storage.read"}]_vars

\* A run has returned the scan that an earlier run cached.
C5_SecondRunReturnedCached ==
    \E p \in Procs :
        /\ proc[p].pc = "done"
        /\ "storage.read" \in proc[p].calls
        /\ proc[p].result = [kind |-> "scan", id |-> window[proc[p].address].reuse]
        /\ proc[p].ids_before = nextScanId - 1

C7_InvalidInputRejected ==
    [][\A p \in Procs :
          (proc[p].pc = "idle" /\ proc'[p].pc # "idle" /\ ~proc'[p].well_formed) =>
              /\ proc'[p].pc = "done"
              /\ proc'[p].result.kind = "ValidationError"
              /\ proc'[p].calls = {}
              /\ proc'[p].scan = NoScan
              /\ UNCHANGED <<storage, cache>>]_vars

\* A call with ill-formed arguments has been rejected while storage and
\* cache held data.
C7_RejectedWithDataPresent ==
    \E p \in Procs :
        /\ proc[p].pc = "done" /\ ~proc[p].well_formed
        /\ proc[p].result.kind = "ValidationError"
        /\ scans # <<>> /\ cache # <<>>

\* The non-forced runs that hold a fresh scan of a wallet.
FreshScanning(address) ==
    {p \in Procs : /\ proc[p].pc \notin {"idle", "done"}
                   /\ proc[p].address = address
                   /\ ~proc[p].force_refresh
                   /\ proc[p].scan.id # NoId}

\* C8 as stated: in every interleaving of non-forced calls on a wallet, the
\* backend up, at most one fresh scan is started per window; two calls never
\* both hold a fresh scan of the wallet, since both scans would have been
\* started within one window.
C8_OneFreshScan ==
    \A a \in WalletKeys : Cardinality(FreshScanning(a)) <= 1

\* C8, amended: between two expiries of a wallet's cache entry, the backend
\* up, at most one fresh scan is completed and cached by non-forced calls
\* that overlap no other call on the wallet.
C8_OneFreshScanPerWindowAlone ==
    \A a \in WalletKeys : window[a].completed <= 1

\* A call alone on the wallet has completed a fresh scan and a later one has
\* returned it from the cache.
C8_SecondCallerReused ==
    \E p \in Procs :
        /\ proc[p].pc = "done" /\ ~proc[p].overlap
        /\ "storage.read" \in proc[p].calls
        /\ window[proc[p].address].completed = 1
        /\ proc[p].result = [kind |-> "scan", id |-> window[proc[p].address].reuse]

\* The run of p found the backend failing at each of its cache operations.
BackendFailedThroughout(p) ==
    /\ "cache.get failed" \in proc[p].calls
    /\ "cache.set" \in proc[p].calls => "cache.set failed" \in proc[p].calls

\* C9: with the backend failing, get_recent_scan answers a miss and
\* set_recent_scan and invalidate_scan return without raising and without
\* changing an entry; and a run on valid input that meets the failing
\* backend at each cache operation, no other step raising, returns a fresh
\* scan stored COMPLETED with the approvals it found, as on an empty cache.
C9_CacheNotRequired ==
    /\ \A a \in WalletKeys, id \in 1..MaxScans :
           /\ get_recent_scan(cache, FALSE, a, 1) = [value |-> NoId, cache |-> cache, raised |-> FALSE]
           /\ set_recent_scan(cache, FALSE, a, id, 1, 0) = [value |-> NoId, cache |-> cache, raised |-> FALSE]
           /\ invalidate_scan(cache, FALSE, a, 1) = [value |-> NoId, cache |-> cache, raised |-> FALSE]
    /\ \A p \in Procs :
           (proc[p].pc = "done" /\ BackendFailedThroughout(p)) =>
               /\ proc[p].exc # "cache"
               /\ proc[p].exc = "" =>
                      /\ proc[p].result = [kind |-> "scan", id |-> proc[p].scan.id]
                      /\ proc[p].result.id > proc[p].ids_before
                      /\ scans[proc[p].scan.id].status = "COMPLETED"
                      /\ scans[proc[p].scan.id].total_approvals = proc[p].found
                      /\ "cache.set failed" \in proc[p].calls

\* A run has returned a COMPLETED scan although the backend failed at its
\* read and at its write, an entry for the wallet being held.
C9_CompletedWithBackendDown ==
    \E p \in Procs :
        /\ proc[p].pc = "done"
        /\ {"cache.get failed", "cache.set failed"} \subseteq proc[p].calls
        /\ proc[p].result.kind = "scan"
        /\ scans[proc[p].result.id].status = "COMPLETED"
        /\ cache # <<>>

\* The run of p has passed the empty branch without an exception.
EmptyRun(p) ==
    /\ proc[p].found = 0
    /\ proc[p].pc \in {"cache_set", "done"}
    /\ proc[p].exc = ""

\* C10: when discovery and normalization yield no approvals, the scan is
\* stored COMPLETED with total_approvals, total_risk_score, high and critical
\* counts at 0 and risk level LOW, and no approval row belongs to it.
C10_EmptyScanCompleted ==
    \A p \in Procs :
        EmptyRun(p) =>
            LET id == proc[p].scan.id
            IN  /\ id \in DOMAIN scans
                /\ scans[id].status = "COMPLETED"
                /\ scans[id].total_approvals = 0
                /\ scans[id].total_risk_score = 0
                /\ scans[id].high_risk_count = 0
                /\ scans[id].critical_risk_count = 0
                /\ scans[id].risk_level = "LOW"
                /\ \A i \in 1..Len(approvals) : approvals[i].wallet_scan # id

\* A run without approvals has returned its scan while approval rows of
\* another scan are stored.
C10_EmptyRunReturned ==
    \E p \in Procs :
        /\ EmptyRun(p) /\ proc[p].pc = "done"
        /\ proc[p].result.kind = "scan"
        /\ approvals # <<>>

(***************************************************************************)
(* Properties of the stored scans                                          *)
(***************************************************************************)
\* The Approval rows of a scan, in insertion order.
RowsOf(id) == SelectSeq(approvals, LAMBDA row : row.wallet_scan = id)

\* C11: in every reachable storage state a scan stored as COMPLETED has
\* exactly total_approvals approval rows, whose risk points sum to its
\* total_risk_score and whose HIGH and CRITICAL rows number its
\* high_risk_count and critical_risk_count; the status, the summary and the
\* rows are committed together, so a failed insert leaves no COMPLETED scan
\* with rows missing.
C11_CompletedScanMatchesRows ==
    \A id \in DOMAIN scans :
        scans[id].status = "COMPLETED" =>
            LET rows == RowsOf(id)
            IN  /\ Len(rows) = scans[id].total_approvals
                /\ SumPoints(rows) = scans[id].total_risk_score
                /\ CountLevel(rows, "HIGH") = scans[id].high_risk_count
                /\ CountLevel(rows, "CRITICAL") = scans[id].critical_risk_count

\* One scan failed in _persist_results and has no rows; another is stored
\* COMPLETED with two rows, one of them CRITICAL.
C11_CompletedAfterFailedInsert ==
    \E id, other \in DOMAIN scans :
        /\ scans[id].status = "COMPLETED"
        /\ scans[id].total_approvals = 2
        /\ scans[id].critical_risk_count = 1
        /\ scans[other].status = "FAILED"
        /\ scans[other].error_message = "persist"
        /\ RowsOf(other) = <<>>

\* The scans of a wallet that are stored COMPLETED.
CompletedScans(address) ==
    {id \in DOMAIN scans : scans[id].wallet = address /\ scans[id].status = "COMPLETED"}

\* C12: after any sequence of sequential run_scan calls, wallet.total_scans
\* equals the number of fresh scans of that wallet that ended COMPLETED,
\* the scans that found zero approvals included (no scan is deleted in the
\* specification this is read in, so the stored COMPLETED scans are the
\* fresh scans that ended COMPLETED).
C12_CounterCountsCompletedScans ==
    (\A p \in Procs : proc[p].pc \in {"idle", "done"}) =>
        \A address \in DOMAIN wallets :
            wallets[address].total_scans = Cardinality(CompletedScans(address))

\* A fresh scan that found no approvals has been returned COMPLETED and the
\* counter of its wallet is still 0.
C12_EmptyScanNotCounted ==
    \E p \in Procs :
        /\ EmptyRun(p) /\ proc[p].pc = "done"
        /\ proc[p].result.kind = "scan"
        /\ proc[p].scan.id \in CompletedScans(proc[p].address)
        /\ wallets[proc[p].address].total_scans = 0

\* C13: in every reachable storage state a scan whose status is COMPLETED or
\* FAILED has its completion timestamp set, and a scan whose status is
\* PENDING or IN_PROGRESS has none.
C13_TimestampIffTerminal ==
    \A id \in DOMAIN scans :
        (scans[id].completed_at # None) <=> (scans[id].status \in {"COMPLETED", "FAILED"})

\* A scan that failed in discovery and a scan in progress are stored side
\* by side.
C13_FailedBesideInProgress ==
    \E id, other \in DOMAIN scans :
        /\ scans[id].status = "FAILED"
        /\ scans[id].error_message = "discovery"
        /\ scans[other].status = "IN_PROGRESS"

(***************************************************************************)
(* Properties of what the callers receive                                  *)
(***************************************************************************)
\* The step in which execute hands its result to the caller of p.
Ends(p) == proc[p].pc # "done" /\ proc'[p].pc = "done"

\* C14 as stated: every call to run_scan ends in exactly one of a reference
\* to a COMPLETED scan, a reference to a FAILED scan, or a raised validation
\* error; when the scan failed after its record was created, the caller
\* receives the reference of that FAILED scan.
C14_EndsInScanOrValidationError ==
    [][\A p \in Procs :
          Ends(p) =>
              LET me == proc'[p]
              IN  /\ \/ /\ me.result.kind = "scan"
                        /\ me.result.id \in DOMAIN scans'
                        /\ scans'[me.result.id].status \in {"COMPLETED", "FAILED"}
                     \/ me.result.kind = "ValidationError"
                  /\ (me.scan.id \in DOMAIN scans' /\ scans'[me.scan.id].status = "FAILED")
                         => (me.result.kind = "scan" /\ me.result.id = me.scan.id)]_vars

\* C14: every call to run_scan ends in exactly one of a reference to a
\* stored COMPLETED scan, the failure value None, a raised validation error
\* (the arguments were not well-formed), or the exception of the handler's
\* own write; when the scan failed after its record was created, the record
\* is stored FAILED and the caller receives None.
C14_EndsInScanNoneOrError ==
    [][\A p \in Procs :
          Ends(p) =>
              LET me == proc'[p]
              IN  \/ /\ me.result.kind = "scan"
                     /\ me.result.id \in DOMAIN scans'
                     /\ scans'[me.result.id].status = "COMPLETED"
                  \/ /\ me.result.kind = "None"
                     /\ me.exc # ""
                     /\ me.scan.id # NoId =>
                            /\ me.scan.id \in DOMAIN scans'
                            /\ scans'[me.scan.id].status = "FAILED"
                  \/ /\ me.result.kind = "ValidationError"
                     /\ ~me.well_formed
                     /\ scans' = scans
                  \/ /\ me.result.kind = "Exception"
                     /\ me.exc # ""
                     /\ me.scan.id # NoId]_vars

\* A run whose scan record exists has ended with None and the record is
\* stored FAILED.
C14_NoneForFailedScan ==
    \E p \in Procs :
        /\ proc[p].pc = "done"
        /\ proc[p].result.kind = "None"
        /\ proc[p].scan.id \in DOMAIN scans
        /\ scans[proc[p].scan.id].status = "FAILED"

(***************************************************************************)
(* Properties of scan_wallet_async                                         *)
(***************************************************************************)
\* The step in which the caller of p takes the result of execute.
Returns(p) == proc[p].pc = "done" /\ proc'[p].pc = "idle"

\* execute raised to the caller of p.
Raised(p) == proc[p].result.kind \in {"ValidationError", "Exception"}

\* The run of p is an execution of scan_wallet_async.
InTask(p) == proc[p].task.retries >= 0

\* C15: when execute raises inside the background task, the task is
\* re-queued with a delay of 60 * 2^k seconds, k being the number of retries
\* already performed (60, 120, 240); at most 3 retries are made, and after
\* the third the failure is not re-queued but goes to the task's caller.
C15_RetryBackoff ==
    [][\A p \in Procs :
          (Returns(p) /\ InTask(p) /\ Raised(p)) =>
              LET task == proc[p].task
                  k == task.retries
                  delay == CASE k = 0 -> 60 [] k = 1 -> 120 [] k = 2 -> 240 [] OTHER -> 0
              IN  /\ k \in 0..3
                  /\ k < 3 => queue' = Append(queue, [wallet_address |-> task.wallet_address,
                                                      chain_id |-> task.chain_id,
                                                      retries |-> k + 1,
                                                      countdown |-> delay])
                  /\ k = 3 => queue' = queue]_vars

\* The fourth execution of a task (3 retries, the last one delayed by 240
\* seconds) has raised.
C15_FourthExecutionRaised ==
    \E p \in Procs :
        /\ proc[p].pc = "done" /\ Raised(p)
        /\ proc[p].task.retries = 3
        /\ proc[p].task.countdown = 240

\* The run of p failed at the orchestration level: its scan is stored FAILED
\* and execute returned the failure value.
FailedAtOrchestration(p) ==
    /\ proc[p].result.kind = "None"
    /\ proc[p].scan.id \in DOMAIN scans
    /\ scans[proc[p].scan.id].status = "FAILED"

\* C16: a background scan attempt that fails at the orchestration level (its
\* scan is marked FAILED and execute reports failure) is retried by the retry
\* wrapper as long as fewer than 3 retries have been made.
C16_FailedAttemptRetried ==
    [][\A p \in Procs :
          (Returns(p) /\ InTask(p) /\ FailedAtOrchestration(p) /\ proc[p].task.retries < 3) =>
              /\ Len(queue') = Len(queue) + 1
              /\ queue'[Len(queue')].wallet_address = proc[p].task.wallet_address
              /\ queue'[Len(queue')].retries = proc[p].task.retries + 1]_vars

\* The first execution of a task has failed at the orchestration level and
\* nothing is queued.
C16_FirstAttemptFailed ==
    \E p \in Procs :
        /\ proc[p].pc = "done" /\ InTask(p)
        /\ proc[p].task.retries = 0
        /\ FailedAtOrchestration(p)
        /\ queue = <<>>

\* C17: for an invalid address or an unsupported chain the background task
\* fails on its first execution without scheduling any retry or backoff
\* delay, and no scan record is created.
C17_InvalidTaskFailsAtOnce ==
    [][\A p \in Procs :
          (Returns(p) /\ InTask(p) /\ ~proc[p].well_formed) =>
              /\ proc[p].result.kind = "ValidationError"
              /\ proc[p].task.retries = 0
              /\ queue' = queue
              /\ scans' = scans /\ proc[p].scan.id = NoId]_vars

\* A task with arguments that are not well-formed is queued for its second
\* execution, 60 seconds later, and no scan is stored.
C17_InvalidTaskRequeued ==
    \E i \in 1..Len(queue) :
        /\ ~WellFormed(queue[i].wallet_address, queue[i].chain_id)
        /\ queue[i].retries = 1
        /\ queue[i].countdown = 60
        /\ scans = <<>>

(***************************************************************************)
(* Properties of ImprovedEtherscanAdapter                                  *)
(***************************************************************************)
\* The elements of a sequence.
Range(s) == {s[i] : i \in 1..Len(s)}

\* The log query got a list of events (an empty one when the service said
\* "no records").
Answered(response) ==
    /\ response.exception = ""
    /\ ~(response.status = "0" /\ response.message = "NOTOK")
    /\ response.result_type = "list"

\* The events of a response that carry the spender or operator topic.
Candidates(response) ==
    IF Answered(response)
    THEN {i \in 1..Len(response.result) : Len(response.result[i].topics) >= 3}
    ELSE {}

\* The (token, spender) or (collection, operator) pair of an event.
PairOf(event) == <<Lower(event.address), <<"0", "x">> \o LastChars(event.topics[3], HexLen)>>

\* The deduplicated candidate pairs of a response.
CandidatePairs(response) == {PairOf(response.result[i]) : i \in Candidates(response)}

\* C18: the discovery output is exactly the set of deduplicated candidate
\* pairs whose live read succeeded and returned an allowance > 0 (fungible,
\* approved_amount being that allowance) or isApprovedForAll = true
\* (non-fungible): a pair with events and a live allowance of 0 or a live
\* false is not output, and a failed read drops only its own pair.
C18_OutputIsConfirmedPairs ==
    adapter.pc = "done" =>
        LET fungible == {k \in CandidatePairs(chainState.erc20_log) :
                            /\ ~chainState.allowance[k].raised
                            /\ chainState.allowance[k].value > 0}
            operators == {k \in CandidatePairs(chainState.nft_log) :
                            /\ ~chainState.operator[k].raised
                            /\ chainState.operator[k].value}
        IN  /\ {<<r.token_address, r.spender_address, r.approved_amount>> :
                    r \in Range(adapter.erc20)}
                 = {<<k[1], k[2], chainState.allowance[k].value>> : k \in fungible}
            /\ Len(adapter.erc20) = Cardinality(fungible)
            /\ {<<r.token_address, r.operator_address>> : r \in Range(adapter.nft)} = operators
            /\ Len(adapter.nft) = Cardinality(operators)
            /\ \A r \in Range(adapter.erc20) \cup Range(adapter.nft) : r.is_active

\* Two fungible pairs have events, the read of one fails and the other has
\* a live allowance: one record is output; the collection's operator has
\* events and a live false: no record.
C18_OnePairDropped ==
    /\ adapter.pc = "done"
    /\ CandidatePairs(chainState.erc20_log) = {PairXUnknown, PairXDrainer}
    /\ chainState.allowance[PairXDrainer].raised
    /\ Len(adapter.erc20) = 1
    /\ adapter.erc20[1].approved_amount = 5
    /\ CandidatePairs(chainState.nft_log) = {PairYSeaport}
    /\ adapter.nft = <<>>

\* The first event of a pair in the result order of the log service.
FirstEvent(response, pair) ==
    LET of_pair == {i \in Candidates(response) : PairOf(response.result[i]) = pair}
    IN  response.result[CHOOSE i \in of_pair : \A j \in of_pair : i <= j]

\* The records of a list name distinct pairs and carry the block number and
\* transaction hash of the first event of their pair.
EarliestKept(records, response, other) ==
    /\ \A i, j \in 1..Len(records) :
           (records[i].token_address = records[j].token_address /\
            records[i][other] = records[j][other]) => i = j
    /\ \A r \in Range(records) :
           LET event == FirstEvent(response, <<r.token_address, r[other]>>)
           IN  /\ r.block_number = IntBase16(event.blockNumber)
               /\ r.transaction_hash = event.transactionHash

\* C19: for fungible and non-fungible candidates alike, discovery outputs at
\* most one record per (token/collection, spender/operator) pair, and the
\* record carries the block number and transaction hash of the first event
\* of the pair in the log service's result order.
C19_EarliestEventKept ==
    adapter.pc = "done" =>
        /\ EarliestKept(adapter.erc20, chainState.erc20_log, "spender_address")
        /\ EarliestKept(adapter.nft, chainState.nft_log, "operator_address")

\* The log holds a grant at block 200 and then a revocation at block 201 of
\* one operator, who is approved now: the record carries block 201.
C19_LatestEventKept ==
    /\ adapter.pc = "done"
    /\ chainState.nft_log.result = <<EventN1, EventN2>>
    /\ Len(adapter.nft) = 1
    /\ adapter.nft[1].block_number = 201
    /\ adapter.nft[1].transaction_hash = "0xt5"
    /\ ~adapter.nft[1].was_approved

\* The pairs of a chain that have events in an answered query and a live
\* read that confirms them.
ConfirmedPairs(chain) ==
    {k \in CandidatePairs(chain.erc20_log) :
        ~chain.allowance[k].raised /\ chain.allowance[k].value > 0}
    \cup
    {k \in CandidatePairs(chain.nft_log) :
        ~chain.operator[k].raised /\ chain.operator[k].value}

\* The run of p has gone through discovery while a log query was failing.
DiscoveredDespiteFailure(p) ==
    /\ proc[p].pc \notin {"idle", "cache_get", "db_get", "get_wallet", "create_scan", "discover"}
    /\ "discovery" \in proc[p].calls
    /\ ~Answered(chainState.erc20_log) \/ ~Answered(chainState.nft_log)

C21_RequestsSerializedAndSpaced ==
    /\ limiter.in_flight <= 1
    /\ Len(limiter.requests) = 2 =>
           (limiter.requests[2] - limiter.requests[1]) * limiter.ceiling >= Second

\* A second request that had to wait for its time is in flight.
C21_SecondRequestAfterSleep ==
    /\ limiter.pc = "request"
    /\ Len(limiter.requests) = 2
    /\ limiter.sleep > 0

(***************************************************************************)
(* C22-C24  The blacklist rule in the shared registry                      *)
(***************************************************************************)
\* A step that is a call of evaluate_approval.
Evaluates == call' # call /\ call'.fn = "evaluate_approval"

\* The spender the blacklist rule looks up.
Spender(approval) == Lower(approval.spender_address)

\* The points of the rules that hold no state, for an approval.
StatelessPoints(approval) ==
    (IF approval.token_type = "ERC20" /\ approval.is_unlimited THEN 25 ELSE 0)
    + (IF approval.token_type \in NftTypes /\ approval.is_operator THEN 30 ELSE 0)
    + (IF Spender(approval) \notin KNOWN_SPENDERS \cup {ZeroAddress} THEN 10 ELSE 0)

\* The reasons of the blacklist rule among the reasons of an evaluation.
BlacklistReasons(evaluation) ==
    {evaluation.risk_reasons[i] : i \in
        {j \in DOMAIN evaluation.risk_reasons :
            evaluation.risk_reasons[j][1] \in
                {"Approval to known", "Approval to known malicious contract"}}}

\* The blacklist rule was applied in an evaluation.
Flagged(evaluation) == BlacklistReasons(evaluation) # {}

\* C22: whenever the spender of an evaluated approval is in the blacklist
\* snapshot, the blacklist rule contributes the severity of the entry stored
\* for that spender and a reason that names that entry's category, never the
\* rule's nominal default nor what an earlier evaluation matched.
C22_ContributionOfMatchedEntry ==
    [][Evaluates /\ Spender(call'.approval) \in blacklistCache =>
          /\ Spender(call'.approval) \in DOMAIN blacklist
          /\ LET entry == blacklist[Spender(call'.approval)]
             IN  /\ call'.evaluation.risk_points =
                        StatelessPoints(call'.approval) + entry.severity
                 /\ \A reason \in BlacklistReasons(call'.evaluation) :
                        /\ Len(reason) = 3
                        /\ reason[2] = CategoryDisplay(entry.category)
                 /\ Flagged(call'.evaluation)]_vars

\* The approval to the scam contract was given the reason of the drainer
\* entry, which an earlier evaluation had matched.
C22_ReasonOfEarlierEntry ==
    /\ call.fn = "evaluate_approval"
    /\ call.approval = ToScam
    /\ \E reason \in BlacklistReasons(call.evaluation) :
           Len(reason) = 3 /\ reason[2] = "Token Drainer"

\* C23: the blacklist rule is applied to an approval exactly when its spender
\* was active in storage at the time the evaluator making the call was
\* constructed.
C23_SnapshotPerEvaluator ==
    [][Evaluates =>
          (Flagged(call'.evaluation) <=>
               Spender(call'.approval) \in history.active)]_vars

\* An evaluator constructed after the drainer entry was deactivated or deleted
\* has applied the blacklist rule to the approval to the drainer.
C23_DeactivatedEntryApplied ==
    /\ call.fn = "evaluate_approval"
    /\ call.approval = ToDrainer
    /\ Flagged(call.evaluation)
    /\ DrainerAddress \notin history.active

\* C24: with the rules loaded once, an approval evaluated again gets the
\* points and the reasons of its first evaluation, whatever was evaluated and
\* whatever rows of the blacklist were changed in between.
C24_SameApprovalSameResult ==
    [][/\ Evaluates
       /\ history.first # <<>>
       /\ call'.approval = history.first[1].approval
       => /\ call'.evaluation.risk_points =
                 history.first[1].evaluation.risk_points
          /\ call'.evaluation.risk_reasons =
                 history.first[1].evaluation.risk_reasons]_vars

\* The first approval was evaluated again with the same snapshot, and its
\* points differ.
C24_SecondResultDiffers ==
    /\ call.fn = "evaluate_approval"
    /\ history.first # <<>>
    /\ call.approval = history.first[1].approval
    /\ call.evaluation.risk_points # history.first[1].evaluation.risk_points

(***************************************************************************)
(* C25-C26  One evaluation                                                 *)
(***************************************************************************)
\* Whether a rule is applicable to an approval, by the rule's own condition.
Applicable(name, approval) ==
    CASE name = "UnlimitedERC20ApprovalRule" ->
             approval.token_type = "ERC20" /\ approval.is_unlimited
      [] name = "NFTOperatorApprovalRule" ->
             approval.token_type \in NftTypes /\ approval.is_operator
      [] name = "BlacklistedSpenderRule" ->
             /\ Spender(approval) \in DOMAIN BlacklistEntries
             /\ BlacklistEntries[Spender(approval)].is_active
      [] name = "UnknownSpenderRule" ->
             Spender(approval) \notin KNOWN_SPENDERS \cup {ZeroAddress}

\* The point value of a rule for an approval it applies to.
PointValue(name, approval) ==
    CASE name = "UnlimitedERC20ApprovalRule" -> 25
      [] name = "NFTOperatorApprovalRule" -> 30
      [] name = "BlacklistedSpenderRule" ->
             BlacklistEntries[Spender(approval)].severity
      [] name = "UnknownSpenderRule" -> 10

\* The first word of the reason of a rule.
ReasonHead(name) ==
    CASE name = "UnlimitedERC20ApprovalRule" -> "Unlimited ERC20 approval"
      [] name = "NFTOperatorApprovalRule" -> "NFT operator approval"
      [] name = "BlacklistedSpenderRule" -> "Approval to known"
      [] name = "UnknownSpenderRule" -> "Approval to unverified contract"

\* The rules that count in a call, in registration order.
Counted(approval, raises) ==
    SelectSeq(<<"UnlimitedERC20ApprovalRule", "NFTOperatorApprovalRule",
                "BlacklistedSpenderRule", "UnknownSpenderRule">>,
              LAMBDA name : name \notin raises /\ Applicable(name, approval))

RECURSIVE SumOfPointValues(_, _)
SumOfPointValues(names, approval) ==
    IF names = <<>> THEN 0
    ELSE PointValue(Head(names), approval)
         + SumOfPointValues(Tail(names), approval)

\* C25: the points of an evaluation are the sum of the point values of the
\* applicable rules that did not raise, and its reasons are theirs, one per
\* rule, in registration order (unlimited fungible, operator, blacklisted
\* spender, unknown spender); a rule that raises adds nothing and the rules
\* after it are still run.
C25_SumOfApplicableRules ==
    call.fn = "evaluate_approval" =>
        LET counted == Counted(call.approval, call.raises)
        IN  /\ call.evaluation.risk_points =
                   SumOfPointValues(counted, call.approval)
            /\ Len(call.evaluation.risk_reasons) = Len(counted)
            /\ \A i \in DOMAIN counted :
                   call.evaluation.risk_reasons[i][1] = ReasonHead(counted[i])

\* The second rule raised on an NFT operator approval to an unknown spender,
\* and the rule after it was counted.
C25_RuleAfterRaisingRuleCounted ==
    /\ call.fn = "evaluate_approval"
    /\ call.raises = {"NFTOperatorApprovalRule"}
    /\ call.approval.token_type = "ERC721"
    /\ call.approval.is_operator
    /\ call.evaluation.risk_points = 10
    /\ Len(call.evaluation.risk_reasons) = 1

\* The points and the level of the last call.
LevelOf ==
    CASE call.fn = "evaluate_approval" ->
             [points |-> call.evaluation.risk_points,
              level |-> call.evaluation.risk_level]
      [] call.fn = "risk_level_from_score" ->
             [points |-> call.score, level |-> call.level]

\* C26: the level is CRITICAL iff points >= 60, HIGH iff 40 <= points < 60,
\* MEDIUM iff 20 <= points < 40 and LOW iff points < 20.
C26_LevelThresholds ==
    call.fn \in {"evaluate_approval", "risk_level_from_score"} =>
        /\ LevelOf.level = "CRITICAL" <=> LevelOf.points >= 60
        /\ LevelOf.level = "HIGH" <=> (40 <= LevelOf.points /\ LevelOf.points < 60)
        /\ LevelOf.level = "MEDIUM" <=> (20 <= LevelOf.points /\ LevelOf.points < 40)
        /\ LevelOf.level = "LOW" <=> LevelOf.points < 20

\* An evaluation of exactly 60 points is CRITICAL.
C26_SixtyPointsCritical ==
    /\ call.fn = "evaluate_approval"
    /\ call.evaluation.risk_points = 60
    /\ call.evaluation.risk_level = "CRITICAL"

(***************************************************************************)
(* C27  Points and levels under the severities storage holds               *)
(***************************************************************************)
\* The order of the levels.
LevelRank(level) ==
    CASE level = "LOW" -> 0
      [] level = "MEDIUM" -> 1
      [] level = "HIGH" -> 2
      [] level = "CRITICAL" -> 3

\* What each rule applied in an evaluation has added to its points.
AppliedPoints(evaluation) ==
    {IF reason[1] = "Unlimited ERC20 approval" THEN 25
     ELSE IF reason[1] = "NFT operator approval" THEN 30
     ELSE IF reason[1] = "Approval to unverified contract" THEN 10
     ELSE evaluation.risk_points - StatelessPoints(evaluation.approval) :
         reason \in Range(evaluation.risk_reasons)}

\* C27: whatever severities the blacklist rows hold, the points of an
\* evaluation are >= 0, and its level is not lower than the level the same
\* approval has with one of its applicable rules left out.
C27_PointsNonNegativeLevelMonotone ==
    call.fn = "evaluate_approval" =>
        /\ call.evaluation.risk_points >= 0
        /\ \A points \in AppliedPoints(call.evaluation) :
               LevelRank(call.evaluation.risk_level) >=
                   LevelRank(risk_level_from_score(
                       call.evaluation.risk_points - points))

\* The unlimited approval to the drainer, whose entry has severity -40, has
\* -5 points and the level LOW; without the blacklist rule it has 35 points.
C27_NegativeSeverityLowersLevel ==
    /\ call.fn = "evaluate_approval"
    /\ call.approval = ToDrainer
    /\ DrainerAddress \in DOMAIN blacklist
    /\ blacklist[DrainerAddress].severity = 0 - 40
    /\ call.evaluation.risk_points = 0 - 5
    /\ call.evaluation.risk_level = "LOW"
    /\ risk_level_from_score(StatelessPoints(ToDrainer)) = "MEDIUM"

(***************************************************************************)
(* C28-C29  The summary of a wallet                                        *)
(***************************************************************************)
\* The sum of the points of the first n evaluations of a list.
RECURSIVE PointsOfFirst(_, _)
PointsOfFirst(evaluations, n) ==
    IF n = 0 THEN 0
    ELSE PointsOfFirst(evaluations, n - 1) + evaluations[n].risk_points

\* The evaluations of a list that are at exactly a level.
AtLevel(evaluations, level) ==
    {i \in DOMAIN evaluations : evaluations[i].risk_level = level}

\* The level of the mean of a non-empty list by the thresholds 60, 40, 20.
LevelOfMean(evaluations) ==
    LET n == Len(evaluations)
        total == PointsOfFirst(evaluations, n)
    IN  IF total >= 60 * n THEN "CRITICAL"
        ELSE IF total >= 40 * n THEN "HIGH"
        ELSE IF total >= 20 * n THEN "MEDIUM"
        ELSE "LOW"

C29_SummaryCounts ==
    call.fn = "aggregate" =>
        /\ call.summary.total_approvals = Len(call.evaluations)
        /\ call.summary.total_risk_score =
               PointsOfFirst(call.evaluations, Len(call.evaluations))
        /\ call.summary.high_risk_count =
               Cardinality(AtLevel(call.evaluations, "HIGH"))
        /\ call.summary.critical_risk_count =
               Cardinality(AtLevel(call.evaluations, "CRITICAL"))
        /\ call.summary.high_risk_count + call.summary.critical_risk_count
               <= call.summary.total_approvals
        /\ call.summary.evaluations = call.evaluations
        /\ call.summary.wallet_address = call.wallet_address
        /\ call.evaluations = <<>> =>
               /\ call.summary.total_approvals = 0
               /\ call.summary.total_risk_score = 0
               /\ call.summary.risk_level = "LOW"
               /\ call.summary.high_risk_count = 0
               /\ call.summary.critical_risk_count = 0
               /\ call.summary.evaluations = <<>>

\* A list with a HIGH and a CRITICAL evaluation in it was summarised: one is
\* counted as high, the other as critical.
C29_HighAndCriticalCounted ==
    /\ call.fn = "aggregate"
    /\ Len(call.evaluations) = 3
    /\ call.summary.high_risk_count = 1
    /\ call.summary.critical_risk_count = 1
    /\ call.summary.total_risk_score = 115

(***************************************************************************)
(* C30  validate_scan_input                                                *)
(***************************************************************************)
\* A step that is a call of validate_scan_input.
Validates == call.fn = "none" /\ call'.fn = "validate_scan_input"

\* t is s without the whitespace around it, in lower case.
LowerTrimmed(s, t) ==
    \E i \in 1..(Len(s) + 1) :
        /\ i + Len(t) - 1 <= Len(s)
        /\ \A k \in 1..Len(s) : (k < i \/ k > i + Len(t) - 1) => s[k] \in Whitespace
        /\ \A k \in 1..Len(t) :
               t[k] = (CASE s[i + k - 1] = "A" -> "a" [] s[i + k - 1] = "B" -> "b"
                         [] s[i + k - 1] = "C" -> "c" [] s[i + k - 1] = "D" -> "d"
                         [] s[i + k - 1] = "E" -> "e" [] s[i + k - 1] = "F" -> "f"
                         [] s[i + k - 1] = "X" -> "x" [] OTHER -> s[i + k - 1])

\* What the message of the error says of the supported chains, when it lists
\* them.
SupportedChainsListed == {<<1, "Ethereum Mainnet">>}

\* The call succeeded or failed as the address and the chain require, and
\* returned the lower-cased trimmed address and the chain id, changing nothing.
ValidatedAsRequired ==
    LET accepted == WellFormedAddress(call'.address) /\ call'.chain_id \in {1}
    IN  /\ call'.result.ok <=> accepted
        /\ accepted => /\ Len(call'.result.address) = HexLen + 2
                       /\ LowerTrimmed(call'.address, call'.result.address)
                       /\ call'.result.chain_id = call'.chain_id
        /\ ~accepted => call'.result.error # ""
        /\ UNCHANGED <<storage, cache, cacheUp, blacklistRule, queue, proc, window, chainState, adapter, limiter, blacklist, blacklistCache, history>>

\* C30 as stated: validate_scan_input succeeds iff the trimmed address is 0x
\* and 40 hex digits and the chain is supported; it then returns the
\* lower-cased trimmed address and the chain id, with no side effect; otherwise
\* it raises a validation error, which lists the supported chains whenever the
\* chain is unsupported.
C30_ErrorListsChainsWheneverUnsupported ==
    [][Validates =>
          /\ ValidatedAsRequired
          /\ call'.chain_id \notin {1} =>
                 call'.result.supported = SupportedChainsListed]_vars

\* C30, amended: as above, but the error lists the supported chains exactly
\* when the address is well formed and the chain is unsupported; an ill-formed
\* address raises the error about the address, whatever the chain.
C30_ErrorListsChainsForValidAddress ==
    [][Validates =>
          /\ ValidatedAsRequired
          /\ call'.result.supported = SupportedChainsListed <=>
                 (WellFormedAddress(call'.address) /\ call'.chain_id \notin {1})
          /\ ~WellFormedAddress(call'.address) =>
                 call'.result.error \in {"Address cannot be empty",
                                         "Invalid Ethereum address format"}]_vars

\* An address that is not well formed was rejected on an unsupported chain:
\* the error is the one about the address and lists no chain.
C30_IllFormedAddressOnUnsupportedChain ==
    /\ call.fn = "validate_scan_input"
    /\ ~WellFormedAddress(call.address)
    /\ call.chain_id = 137
    /\ ~call.result.ok
    /\ call.result.error = "Invalid Ethereum address format"
    /\ call.result.supported = {}

(***************************************************************************)
(* C31  The approvals the normalizer produces                              *)
(***************************************************************************)
\* No upper-case letter in an address.
LowerCased(address) ==
    \A i \in DOMAIN address :
        address[i] \notin {"A", "B", "C", "D", "E", "F", "X"}

\* The raw record the i-th normalized approval of the last call comes from.
RawOf(i) ==
    IF i <= Len(call.raw_approvals.erc20)
    THEN call.raw_approvals.erc20[i]
    ELSE call.raw_approvals.nft[i - Len(call.raw_approvals.erc20)]

PairsOfLog(events) ==
    {<<Lower(events[i].address), <<"0", "x">> \o LastChars(events[i].topics[3], HexLen)>> :
        i \in {j \in 1..Len(events) : Len(events[j].topics) >= 3}}

\* The pairs a discovery reported.
ReportedErc20(found) ==
    {<<found[i].token_address, found[i].spender_address>> : i \in 1..Len(found)}

ReportedNft(found) ==
    {<<found[i].token_address, found[i].operator_address>> : i \in 1..Len(found)}

\* C32: event discovery follows pagination to exhaustion: every pair named
\* by an event that the log service holds for the wallet, on whatever page,
\* is a candidate, so it is reported when its live read confirms it (a
\* positive allowance, an operator approval in force).
C32_EveryHeldPairReported ==
    /\ call.fn = "get_erc20_approvals" =>
           \A pair \in PairsOfLog(call.held) :
               get_current_allowance(call.chain, pair[1], WalletA, pair[2]) > 0 =>
                   pair \in ReportedErc20(call.approvals)
    /\ call.fn = "get_nft_approvals" =>
           \A pair \in PairsOfLog(call.held) :
               check_nft_operator_status(call.chain, pair[1], WalletA, pair[2]) =>
                   pair \in ReportedNft(call.approvals)

\* The log service holds three Approval events; the only event of the pair
\* (X, drainer) is the third, past the page of two, the allowance of the pair
\* is 5, and the discovery does not report it.
C32_PairBeyondFirstPageMissed ==
    /\ call.fn = "get_erc20_approvals"
    /\ call.held = <<EventE1, EventE2, EventE3>>
    /\ get_current_allowance(call.chain, TokenX, WalletA, DrainerAddress) = 5
    /\ PairXDrainer \notin ReportedErc20(call.approvals)


\* C33: across all scans that run concurrently in one process, the combined
\* rate of requests to the log service stays at or below the configured
\* ceiling: of any ceiling + 1 consecutive requests, whichever scans sent
\* them, the last starts at least one second after the first.
C33_CombinedRateWithinCeiling ==
    Len(limiter.requests) = limiter.ceiling + 1 =>
        limiter.requests[Len(limiter.requests)] - limiter.requests[1] >= Second

\* With one request per second configured, the first requests of two scans
\* are in flight at once, both started within the same tenth of a second.
C33_TwoScansRequestAtOnce ==
    /\ limiter.ceiling = 1
    /\ \A p \in Procs : limiter.adapters[p].pc = "request" /\ limiter.adapters[p].sent = 1
    /\ Len(limiter.requests) = 2
    /\ limiter.requests[2] = limiter.requests[1]


\* The level that the counts of CRITICAL and HIGH evaluations alone give.
LevelOfCounts(evaluations) ==
    LET critical_count == Cardinality(AtLevel(evaluations, "CRITICAL"))
        high_count == Cardinality(AtLevel(evaluations, "HIGH"))
    IN  IF critical_count >= 3 THEN "CRITICAL"
        ELSE IF critical_count >= 1 \/ high_count >= 5 THEN "HIGH"
        ELSE IF high_count >= 2 THEN "MEDIUM"
        ELSE "LOW"

\* C34: the level of the wallet is never lower than the level of the mean of
\* the points: it is the higher of the level of the mean and the level the
\* counts give.
C34_LevelIsMaxOfMeanAndCounts ==
    call.fn = "aggregate" /\ call.evaluations # <<>> =>
        LET mean == LevelRank(LevelOfMean(call.evaluations))
            counts == LevelRank(LevelOfCounts(call.evaluations))
        IN  /\ LevelRank(call.summary.risk_level) >= mean
            /\ LevelRank(call.summary.risk_level) = IF mean >= counts THEN mean ELSE counts

\* One evaluation of 65 points, CRITICAL, was summarised: the mean is 65,
\* CRITICAL, and the wallet is HIGH.
C34_OneCriticalMakesHigh ==
    /\ call.fn = "aggregate"
    /\ Len(call.evaluations) = 1
    /\ call.evaluations[1].risk_points = 65
    /\ call.evaluations[1].risk_level = "CRITICAL"
    /\ LevelOfMean(call.evaluations) = "CRITICAL"
    /\ call.summary.risk_level = "HIGH"


\* The key of the step's cache write, if the step wrote an entry.
Written(key) ==
    /\ key \in DOMAIN cache'
    /\ IF key \in DOMAIN cache THEN cache'[key] # cache[key] ELSE TRUE

\* C35: in every interleaving of concurrent scans, a cache entry for (chain,
\* wallet) is written with the id of a scan that storage holds as COMPLETED
\* at the time of the write (never IN_PROGRESS or FAILED), a scan of that
\* wallet on that chain, and the id is the one of the scan of the caller
\* that writes: the entry is the last writer's.
C35_CachedScanCompletedAndOwn ==
    [][\A key \in DOMAIN cache' :
           Written(key) =>
               LET id == cache'[key].scan_id
               IN  /\ id \in DOMAIN scans
                   /\ scans[id].status = "COMPLETED"
                   /\ scans[id].wallet \in DOMAIN wallets
                   /\ key = <<"wallet_scan", wallets[scans[id].wallet].chain_id,
                              scans[id].wallet>>
                   /\ \E p \in Procs : /\ proc[p].pc = "cache_set"
                                       /\ proc'[p].pc = "done"
                                       /\ proc[p].scan.id = id]_vars

\* Two concurrent scans of wallet A completed and wrote the entry one after
\* the other: the scan created first wrote last, and the entry holds its id.
C35_LastWriterCached ==
    /\ \A p \in Procs : proc[p].pc = "done" /\ proc[p].result.kind = "scan"
    /\ proc["p1"].result.id # proc["p2"].result.id
    /\ \A id \in {1, 2} : id \in DOMAIN scans /\ scans[id].status = "COMPLETED"
    /\ get_cache_key(WalletA, 1) \in DOMAIN cache
    /\ cache[get_cache_key(WalletA, 1)].scan_id = 1


\* The scans of a wallet that completed with approvals.
CompletedWithApprovals(address) ==
    {id \in CompletedScans(address) : scans[id].total_approvals > 0}

\* C36: when several run_scan calls for one wallet run concurrently and each
\* completes with approvals, total_scans of the wallet (0 when the wallet is
\* created) has increased by exactly their number once they have returned:
\* no increment is lost.
C36_NoIncrementLost ==
    (\A p \in Procs : proc[p].pc \in {"idle", "done"}) =>
        \A address \in DOMAIN wallets :
            wallets[address].total_scans = Cardinality(CompletedWithApprovals(address))

\* Two calls for wallet A have returned two different scans, both COMPLETED
\* with an approval, and total_scans of the wallet is 1.
C36_TwoScansCountedOnce ==
    /\ \A p \in Procs : proc[p].pc = "done" /\ proc[p].result.kind = "scan"
    /\ proc["p1"].result.id # proc["p2"].result.id
    /\ CompletedWithApprovals(WalletA) = {1, 2}
    /\ wallets[WalletA].total_scans = 1


\* The evaluation that a thread has returned.
ThreadEvaluation(p) ==
    [approval |-> Threads[p].approval, risk_points |-> Threads[p].total_points,
     risk_reasons |-> Threads[p].reasons, risk_level |-> Threads[p].level]

\* C37: an approval evaluated in a thread while another thread evaluates an
\* approval to another blacklisted spender gets the points and the reason of
\* its own blacklist entry: the evaluation returned is the one that
\* evaluate_approval returns when nothing else runs.
C37_EvaluationAsIfAlone ==
    \A p \in Procs :
        Threads[p].pc = "done" =>
            ThreadEvaluation(p) =
                evaluate_approval(Threads[p].approval, BlacklistRuleDefault,
                                  blacklistCache, blacklist, {}).evaluation

\* The approval to the drainer (severity 50) was evaluated while another thread
\* evaluated the approval to the scam contract (severity 70): it got the 70
\* points of the scam entry, 105 in all where it has 85 alone.
C37_DrainerGotPointsOfScamEntry ==
    \E p \in Procs :
        /\ Threads[p].pc = "done"
        /\ Threads[p].approval = ToDrainer
        /\ Threads[p].total_points = 25 + 70 + 10
        /\ evaluate_approval(ToDrainer, BlacklistRuleDefault, blacklistCache,
                             blacklist, {}).evaluation.risk_points = 25 + 50 + 10


\* The run of p has discovered, and its scan is stored COMPLETED with zero
\* approvals, returned, and named by the cache entry of its wallet.
CachedClean(p) ==
    /\ proc[p].pc = "done"
    /\ "discovery" \in proc[p].calls
    /\ proc[p].result = [kind |-> "scan", id |-> proc[p].scan.id]
    /\ proc[p].scan.id \in DOMAIN scans
    /\ scans[proc[p].scan.id].status = "COMPLETED"
    /\ scans[proc[p].scan.id].total_approvals = 0
    /\ RowsOf(proc[p].scan.id) = <<>>
    /\ get_cache_key(proc[p].address, proc[p].chain_id) \in DOMAIN cache
    /\ cache[get_cache_key(proc[p].address, proc[p].chain_id)].scan_id = proc[p].scan.id

\* Every live read that the candidates of the chain call for has answered.
ReadsAnswered(chain) ==
    /\ \A k \in CandidatePairs(chain.erc20_log) : ~chain.allowance[k].raised
    /\ \A k \in CandidatePairs(chain.nft_log) : ~chain.operator[k].raised

\* C38: a scan is stored COMPLETED with zero approvals and cached only if
\* both event queries and every live confirmation read of the scan
\* succeeded (the chain stays as the scan found it until the run returns).
C38_CleanOnlyIfNothingFailed ==
    \A p \in Procs :
        CachedClean(p) =>
            /\ Answered(chainState.erc20_log)
            /\ Answered(chainState.nft_log)
            /\ ReadsAnswered(chainState)

\* Both event queries timed out, and the scan is stored COMPLETED with zero
\* approvals and cached.
C38_TimedOutQueriesCachedClean ==
    \E p \in Procs :
        /\ CachedClean(p)
        /\ chainState.erc20_log = Failure("Timeout")
        /\ chainState.nft_log = Failure("Timeout")

\* Both event queries answered, the allowance read of the one candidate
\* raised, and the scan is stored COMPLETED with zero approvals and cached.
FailedReadCachedClean ==
    \E p \in Procs :
        /\ CachedClean(p)
        /\ Answered(chainState.erc20_log) /\ Answered(chainState.nft_log)
        /\ CandidatePairs(chainState.erc20_log) = {PairXUnknown}
        /\ chainState.allowance[PairXUnknown].raised

====
